---- MODULE Spec2Model ----
(***************************************************************************)
(* A model of the runtime core of ape: the Host/Handle command channel     *)
(* (src/core/handle.rs and src/hook.rs), the closures the TCP, UDP and GUI *)
(* threads submit through it, and the Core::load lifecycle (src/core.rs).  *)
(*                                                                         *)
(* Spec      the owning thread's loop, the Host and the submitting threads *)
(* FairSpec  the same, the owning thread never exiting, with the fairness  *)
(*           of running threads                                            *)
(* LoadSpec  Core::load, step by step, with the plugin's callbacks         *)
(* MemSpec   the address translation and the memory access of a loaded    *)
(*           core, over every small table of descriptors                   *)
(* TcpSpec   the listener and one connection of ap_remote.rs, its lines    *)
(*           handed to the owning thread through Handle::run               *)
(* UdpSpec   the listener of remote.rs, its commands handed to the owning  *)
(*           thread through Handle::run                                    *)
(* RemoteSpec both interfaces with the requests that read and write memory *)
(***************************************************************************)
EXTENDS Integers, Sequences, FiniteSets, TLC

VARIABLES
    host_kind,      \* which Host the channel is: "handle" (core/handle.rs) or "hook" (hook.rs)
    host,           \* position of the owning thread
    taken,          \* commands taken so far by the current Host::run of hook.rs
    rx,             \* commands buffered in the channel, oldest first
    run_fn,         \* the command the owning thread holds, or None
    pc,             \* position of each submitting thread inside Handle::run
    pending,        \* the closure each submitting thread passed to Handle::run
    got,            \* what Handle::run returned to each submitting thread
    result_dropped, \* result channels whose sender was dropped without a send
    memory,         \* the plugin-owned buffer the descriptors point into
    active,         \* history: activities running against the runtime right now
    arrived,        \* history: commands that reached the Host and have not run yet
    execs,          \* history: how often the closure of the current call has run
    CALLBACKS,      \* thread-local callback slot            (core/callbacks.rs)
    state,          \* thread-local STATE (RuntimeState)    (core/state.rs)
    lpc,            \* position inside Core::load
    config,         \* the plugin and handler Core::load was called with
    api_log,        \* what the current Core::load has called so far, in order, and
                    \* "load" where its body has called Core::load
    outer,          \* the loads whose body is waiting for a Core::load it has called
    load_result,    \* how the current Core::load ended
    env_ret,        \* what the last environment callback returned
    call,           \* history: the last call the properties observe, with its arguments
    ret,            \* history: what that call returned
    listener,       \* the TCP listener of ap_remote.rs, and the ports other processes hold
    conn,           \* one TCP connection of ap_remote.rs, and history: the guard its
                    \* last command held when it returned
    udp,            \* the UDP listener of remote.rs
    gui,            \* the GUI thread of gui.rs: Gui::save_state, and whether it runs
    overflow_checks \* the build: whether integer arithmetic panics on overflow
                    \* (debug) or wraps (release)

chan_vars == <<host_kind, host, taken, rx, run_fn, pc, pending, got, result_dropped,
               memory, active, arrived, execs>>
load_vars == <<CALLBACKS, state, lpc, config, api_log, outer, load_result, env_ret>>
obs_vars == <<call, ret>>
tcp_vars == <<listener, conn>>
front_vars == <<tcp_vars, udp, gui, overflow_checks>>
vars == <<chan_vars, load_vars, obs_vars, front_vars>>

----------------------------------------------------------------------------
(* Bounds of the model *)

\* number of submitting threads (TCP connections, the UDP listener, the GUI)
NumClients == 2
\* stands for buffer_size = 100 of hook.rs: the capacity of its channel and
\* the most commands one Host::run takes
buffer_size == 2

\* the width of usize in the model, standing for 64
USIZE_BITS == 16
USIZE_MAX == 2^USIZE_BITS - 1
U8_MAX == 255

Clients == 1..NumClients
\* the owning thread
OwnerThread == NumClients + 1
None == [none |-> TRUE]
\* what a call that panics leaves in place of its result: its thread unwinds
Panic == [panic |-> TRUE]
\* the same for a call that has changed the plugin's memory before it panics
Panicked(mem) == [panic |-> TRUE, memory |-> mem]

Min(a, b) == IF a <= b THEN a ELSE b

----------------------------------------------------------------------------
(* RuntimeState and the address space *)

EXPECTED_LIB_RETRO_VERSION == 1

\* libretro_sys::PixelFormat
ARGB1555 == 0
ARGB8888 == 1
RGB565 == 2
PixelFormats == {ARGB1555, ARGB8888, RGB565}

\* PixelFormat::from_uint, an Option as a sequence of at most one element
PixelFormat_from_uint(n) == IF n \in PixelFormats THEN <<n>> ELSE << >>

State_new ==
    [is_core_loaded |-> FALSE, pixel_format |-> ARGB1555, memory_map |-> << >>,
     rom |-> << >>]

Stub == [stub |-> TRUE]
Handler(supported) == [stub |-> FALSE, supported |-> supported]

\* as supports_pixel_format, had the stub accepted every format
supports_pixel_format_StubAccepts(callbacks, pixel_format) ==
    IF callbacks.stub THEN TRUE ELSE pixel_format \in callbacks.supported

\* Callbacks::supports_pixel_format, of the stub and of a handler
supports_pixel_format(callbacks, pixel_format) ==
    IF callbacks.stub THEN FALSE ELSE pixel_format \in callbacks.supported

\* what a handler of the frontend answers to an input-state query: the
\* button is held down
HandlerInputState(id) == 1

\* Callbacks::input_state, of the stub and of a handler
Callbacks_input_state(callbacks, id) ==
    IF callbacks.stub THEN 0 ELSE HandlerInputState(id)

\* callbacks::register and callbacks::drop: the new content of the slot
callbacks_register(callbacks) == callbacks
callbacks_drop == Stub

\* the bytes of the plugin's buffer and the addresses requests use
Byte == {0, 1}
Phys == {0, 1}

\* the descriptor table a loaded plugin supplies, and the content file
LoadedMap == << [start |-> 0, len |-> 2, select |-> 0, offset |-> 0, ptr |-> 0] >>
LoadedRom == <<1, 0>>

\* Descriptor::end: start + len in usize, which panics on overflow when the
\* build checks it and wraps otherwise
Descriptor_end(d) ==
    IF d.start + d.len <= USIZE_MAX THEN [value |-> d.start + d.len]
    ELSE IF overflow_checks THEN Panic
    ELSE [value |-> (d.start + d.len) % (USIZE_MAX + 1)]

\* Descriptor::contains_address; && evaluates end() only when start <= addr
contains_address(d, addr) ==
    LET below(end) == IF end = Panic THEN Panic ELSE [value |-> addr < end.value]
    IN  IF d.select # 0 \/ d.start > addr THEN [value |-> FALSE]
        ELSE below(Descriptor_end(d))

\* iter().find(..): the first descriptor, in the order of the table, that
\* contains the address; the search ends where contains_address panics
find_descriptor(map, addr) ==
    LET found(contains) ==
            LET hits == {i \in DOMAIN contains : contains[i] # [value |-> FALSE]}
                first == CHOOSE i \in hits : \A j \in hits : i <= j
            IN  IF hits = {} THEN None
                ELSE IF contains[first] = Panic THEN Panic
                ELSE map[first]
    IN  found([i \in 1..Len(map) |-> contains_address(map[i], addr)])

\* (pointer, length), or None; a pointer is a position in the plugin's
\* memory, the descriptor's base pointer advanced by byte_add. || evaluates
\* end() only when addr >= start; self.offset + offset is usize arithmetic too
get_raw_slice(d, addr, max_len) ==
    LET offset == addr - d.start
        before(end) ==
            IF end = Panic THEN Panic
            ELSE IF addr >= end.value THEN None
            ELSE IF d.offset + offset > USIZE_MAX /\ overflow_checks THEN Panic
            ELSE [ptr |-> d.ptr + ((d.offset + offset) % (USIZE_MAX + 1)),
                  len |-> Min(d.len - offset, max_len)]
    IN  IF addr < d.start THEN None ELSE before(Descriptor_end(d))

\* as get_slice, had a descriptor that follows another, in the address space
\* and in the plugin's memory, been taken as the continuation of its region
MemoryMap_get_slice_Contiguous(map, addr, max_len) ==
    LET joined(d, s, next) ==
            IF s # None /\ s # Panic /\ next # None /\ next # Panic
               /\ next.ptr + next.offset = d.ptr + d.offset + d.len
            THEN [ptr |-> s.ptr, len |-> Min(s.len + next.len, max_len)]
            ELSE s
    IN  CHOOSE slice \in
            {IF d = None \/ d = Panic THEN d
             ELSE joined(d, get_raw_slice(d, addr, max_len),
                         find_descriptor(map, d.start + d.len)) :
                d \in {find_descriptor(map, addr)}} : TRUE

\* MemoryMap::get_slice, as the pointer and length of the slice: the slice
\* of the descriptor d that find_descriptor returns; ? returns its None
MemoryMap_get_slice(map, addr, max_len) ==
    CHOOSE slice \in
        {IF d = None \/ d = Panic THEN d ELSE get_raw_slice(d, addr, max_len) :
            d \in {find_descriptor(map, addr)}} : TRUE

\* Core::get_memory: the bytes read as [value |-> bytes], empty when nothing
\* resolves; Panic when get_slice panics
get_memory(st, mem, address, max_len) ==
    CHOOSE vec \in
        {IF s = Panic THEN Panic
         ELSE IF s = None THEN [value |-> << >>]
         ELSE [value |-> [i \in 1..s.len |-> mem[s.ptr + i - 1]]] :
            s \in {MemoryMap_get_slice(st.memory_map, address, max_len)}} : TRUE

\* Core::write_memory: the buffer afterwards and the number of bytes written;
\* Panic when get_slice_mut panics
write_memory(st, mem, address, bytes) ==
    CHOOSE written \in
        {LET len == IF s = None THEN 0 ELSE Min(s.len, Len(bytes))
         IN  IF s = Panic THEN Panic
             ELSE [memory |-> [p \in DOMAIN mem |->
                                IF s # None /\ p >= s.ptr /\ p < s.ptr + len
                                THEN bytes[p - s.ptr + 1] ELSE mem[p]],
                   len |-> len] :
            s \in {MemoryMap_get_slice(st.memory_map, address, Len(bytes))}} : TRUE

\* Core::get_save_ram_mut, as the pointer and length of the slice: region is
\* what the plugin answers retro_get_memory_data and retro_get_memory_size
\* for MEMORY_SAVE_RAM
get_save_ram_mut(region) ==
    IF region.null \/ region.len = 0 THEN [ptr |-> 0, len |-> 0]
    ELSE [ptr |-> region.ptr, len |-> region.len]

\* Core::restore_save_ram: the plugin's memory afterwards
restore_save_ram(mem, region, data) ==
    LET save_ram == get_save_ram_mut(region)
        len == Min(save_ram.len, Len(data))
    IN  [p \in DOMAIN mem |->
            IF p >= save_ram.ptr /\ p < save_ram.ptr + len
            THEN data[p - save_ram.ptr + 1] ELSE mem[p]]

----------------------------------------------------------------------------
(* The JSON/TCP requests (ap_remote.rs) *)

GuardResponse(value, address) == [type |-> "GUARD_RESPONSE", value |-> value, address |-> address]
ErrorResponse(err) == [type |-> "ERROR", err |-> err]

\* the bytes of rom[start..end), both already clamped to the length of rom
RomSlice(rom, address, size) ==
    LET start == Min(address, Len(rom))
        end == Min(address + size, Len(rom))
    IN  [i \in 1..(end - start) |-> rom[start + i]]

\* as handle_request, had LOCK and UNLOCK been carried out
handle_request_Locking(request, st, mem) ==
    CASE request.type = "VERSION" -> [memory |-> mem, response |-> [type |-> "VERSION"]]
      [] request.type = "PING" -> [memory |-> mem, response |-> [type |-> "PONG"]]
      [] request.type = "SYSTEM" ->
            [memory |-> mem, response |-> [type |-> "SYSTEM_RESPONSE", value |-> "GBA"]]
      [] request.type = "PREFERRED_CORES" ->
            [memory |-> mem, response |-> ErrorResponse("PreferredCores")]
      [] request.type = "HASH" ->
            [memory |-> mem, response |-> [type |-> "HASH_RESPONSE", value |-> st.rom]]
      [] request.type = "GUARD" ->
            LET compared(data) ==
                    IF data = Panic THEN Panic
                    ELSE [memory |-> mem,
                          response |-> GuardResponse(data.value = request.expected_data,
                                                     request.address)]
            IN  IF request.domain = "ROM"
                THEN compared([value |-> RomSlice(st.rom, request.address,
                                                  Len(request.expected_data))])
                ELSE IF request.domain = "System Bus"
                THEN compared(get_memory(st, mem, request.address,
                                         Len(request.expected_data)))
                ELSE [memory |-> mem, response |-> ErrorResponse("Unknown memory domain")]
      [] request.type = "LOCK" -> [memory |-> mem, response |-> [type |-> "LOCKED"]]
      [] request.type = "UNLOCK" -> [memory |-> mem, response |-> [type |-> "UNLOCKED"]]
      [] request.type = "READ" ->
            LET read(data) ==
                    IF data = Panic THEN Panic
                    ELSE [memory |-> mem,
                          response |-> [type |-> "READ_RESPONSE", value |-> data.value]]
            IN  IF request.domain = "ROM"
                THEN read([value |-> RomSlice(st.rom, request.address, request.size)])
                ELSE IF request.domain = "System Bus"
                THEN read(get_memory(st, mem, request.address, request.size))
                ELSE [memory |-> mem, response |-> ErrorResponse("Unknown memory domain")]
      [] request.type = "WRITE" ->
            LET wrote(written) ==
                    IF written = Panic THEN Panic
                    ELSE [memory |-> written.memory,
                          response |-> [type |-> "WRITE_RESPONSE"]]
            IN  wrote(write_memory(st, mem, request.address, request.value))
      [] request.type = "DISPLAY_MESSAGE" ->
            [memory |-> mem, response |-> ErrorResponse("DisplayMessage")]
      [] request.type = "SET_MESSAGE_INTERVAL" ->
            [memory |-> mem, response |-> ErrorResponse("SetMessageInterval")]

\* as handle_request, had GUARD stored the bytes it expects
handle_request_GuardStores(request, st, mem) ==
    CASE request.type = "VERSION" -> [memory |-> mem, response |-> [type |-> "VERSION"]]
      [] request.type = "PING" -> [memory |-> mem, response |-> [type |-> "PONG"]]
      [] request.type = "SYSTEM" ->
            [memory |-> mem, response |-> [type |-> "SYSTEM_RESPONSE", value |-> "GBA"]]
      [] request.type = "PREFERRED_CORES" ->
            [memory |-> mem, response |-> ErrorResponse("PreferredCores")]
      [] request.type = "HASH" ->
            [memory |-> mem, response |-> [type |-> "HASH_RESPONSE", value |-> st.rom]]
      [] request.type = "GUARD" ->
            LET stored(data, written) ==
                    IF data = Panic \/ written = Panic THEN Panic
                    ELSE [memory |-> written.memory,
                          response |-> GuardResponse(data.value = request.expected_data,
                                                     request.address)]
            IN  IF request.domain = "ROM"
                THEN stored([value |-> RomSlice(st.rom, request.address,
                                                Len(request.expected_data))],
                            write_memory(st, mem, request.address, request.expected_data))
                ELSE IF request.domain = "System Bus"
                THEN stored(get_memory(st, mem, request.address,
                                       Len(request.expected_data)),
                            write_memory(st, mem, request.address, request.expected_data))
                ELSE [memory |-> mem, response |-> ErrorResponse("Unknown memory domain")]
      [] request.type = "LOCK" -> [memory |-> mem, response |-> ErrorResponse("Lock")]
      [] request.type = "UNLOCK" -> [memory |-> mem, response |-> ErrorResponse("Unlock")]
      [] request.type = "READ" ->
            LET read(data) ==
                    IF data = Panic THEN Panic
                    ELSE [memory |-> mem,
                          response |-> [type |-> "READ_RESPONSE", value |-> data.value]]
            IN  IF request.domain = "ROM"
                THEN read([value |-> RomSlice(st.rom, request.address, request.size)])
                ELSE IF request.domain = "System Bus"
                THEN read(get_memory(st, mem, request.address, request.size))
                ELSE [memory |-> mem, response |-> ErrorResponse("Unknown memory domain")]
      [] request.type = "WRITE" ->
            LET wrote(written) ==
                    IF written = Panic THEN Panic
                    ELSE [memory |-> written.memory,
                          response |-> [type |-> "WRITE_RESPONSE"]]
            IN  wrote(write_memory(st, mem, request.address, request.value))
      [] request.type = "DISPLAY_MESSAGE" ->
            [memory |-> mem, response |-> ErrorResponse("DisplayMessage")]
      [] request.type = "SET_MESSAGE_INTERVAL" ->
            [memory |-> mem, response |-> ErrorResponse("SetMessageInterval")]

\* handle_request: the response and the plugin's buffer afterwards, or Panic
\* when the memory access of the request panics
handle_request(request, st, mem) ==
    CASE request.type = "VERSION" -> [memory |-> mem, response |-> [type |-> "VERSION"]]
      [] request.type = "PING" -> [memory |-> mem, response |-> [type |-> "PONG"]]
      [] request.type = "SYSTEM" ->
            [memory |-> mem, response |-> [type |-> "SYSTEM_RESPONSE", value |-> "GBA"]]
      [] request.type = "PREFERRED_CORES" ->
            [memory |-> mem, response |-> ErrorResponse("PreferredCores")]
      [] request.type = "HASH" ->
            [memory |-> mem, response |-> [type |-> "HASH_RESPONSE", value |-> st.rom]]
      [] request.type = "GUARD" ->
            LET compared(data) ==
                    IF data = Panic THEN Panic
                    ELSE [memory |-> mem,
                          response |-> GuardResponse(data.value = request.expected_data,
                                                     request.address)]
            IN  IF request.domain = "ROM"
                THEN compared([value |-> RomSlice(st.rom, request.address,
                                                  Len(request.expected_data))])
                ELSE IF request.domain = "System Bus"
                THEN compared(get_memory(st, mem, request.address,
                                         Len(request.expected_data)))
                ELSE [memory |-> mem, response |-> ErrorResponse("Unknown memory domain")]
      [] request.type = "LOCK" -> [memory |-> mem, response |-> ErrorResponse("Lock")]
      [] request.type = "UNLOCK" -> [memory |-> mem, response |-> ErrorResponse("Unlock")]
      [] request.type = "READ" ->
            LET read(data) ==
                    IF data = Panic THEN Panic
                    ELSE [memory |-> mem,
                          response |-> [type |-> "READ_RESPONSE", value |-> data.value]]
            IN  IF request.domain = "ROM"
                THEN read([value |-> RomSlice(st.rom, request.address, request.size)])
                ELSE IF request.domain = "System Bus"
                THEN read(get_memory(st, mem, request.address, request.size))
                ELSE [memory |-> mem, response |-> ErrorResponse("Unknown memory domain")]
      [] request.type = "WRITE" ->
            LET wrote(written) ==
                    IF written = Panic THEN Panic
                    ELSE [memory |-> written.memory,
                          response |-> [type |-> "WRITE_RESPONSE"]]
            IN  wrote(write_memory(st, mem, request.address, request.value))
      [] request.type = "DISPLAY_MESSAGE" ->
            [memory |-> mem, response |-> ErrorResponse("DisplayMessage")]
      [] request.type = "SET_MESSAGE_INTERVAL" ->
            [memory |-> mem, response |-> ErrorResponse("SetMessageInterval")]

\* the for loop of handle_requests over requests[i..], from the state acc =
\* [memory, responses, is_locked, failed_guard (a sequence of at most one response)]
RECURSIVE handle_requests_from(_, _, _, _)
handle_requests_from(requests, i, st, acc) ==
    IF i > Len(requests) THEN acc
    ELSE LET pushed == acc.responses \o acc.failed_guard
         IN  CHOOSE handled \in
                {IF r = Panic THEN Panicked(acc.memory)
                 ELSE handle_requests_from(requests, i + 1, st,
                        IF r.response.type = "GUARD_RESPONSE"
                        THEN [acc EXCEPT !.memory = r.memory, !.responses = pushed,
                                         !.failed_guard = <<r.response>>]
                        ELSE [acc EXCEPT !.memory = r.memory,
                                         !.responses = Append(pushed, r.response),
                                         !.is_locked =
                                            IF r.response.type = "LOCKED" THEN TRUE
                                            ELSE IF r.response.type = "UNLOCKED" THEN FALSE
                                            ELSE acc.is_locked]) :
                    r \in {handle_request(requests[i], st, acc.memory)}} : TRUE

\* handle_requests for one line of requests: no response of handle_request is
\* LOCKED, so is_locked stays false and the loop breaks after the first line
handle_requests(requests, st, mem) ==
    handle_requests_from(requests, 1, st,
        [memory |-> mem, responses |-> << >>, is_locked |-> FALSE, failed_guard |-> << >>])

----------------------------------------------------------------------------
(* The lines of the JSON/TCP protocol (ap_remote.rs) *)

\* the protocol version and the ports of the listener
VERSION == 1
FIRST_PORT == 43055
NUM_PORTS == 5

\* a line is text: either a few characters, or the text of a JSON array that
\* serde decodes to the given requests
\* the characters str::trim strips are those with the Unicode property
\* White_Space; one that has no escape in a string is written by its code point
Whitespace ==
    {"\t", "\n", "U+000B", "\f", "\r", " ", "U+0085", "U+00A0", "U+1680",
     "U+2000", "U+2001", "U+2002", "U+2003", "U+2004", "U+2005", "U+2006", "U+2007",
     "U+2008", "U+2009", "U+200A", "U+2028", "U+2029", "U+202F", "U+205F", "U+3000"}
ToUpper(c) ==
    CASE c = "v" -> "V" [] c = "e" -> "E" [] c = "r" -> "R" [] c = "s" -> "S"
      [] c = "i" -> "I" [] c = "o" -> "O" [] c = "n" -> "N" [] OTHER -> c

\* str::trim
RECURSIVE trim_start(_)
trim_start(chars) ==
    IF chars # << >> /\ Head(chars) \in Whitespace THEN trim_start(Tail(chars)) ELSE chars
RECURSIVE trim_end(_)
trim_end(chars) ==
    IF chars # << >> /\ chars[Len(chars)] \in Whitespace
    THEN trim_end(SubSeq(chars, 1, Len(chars) - 1))
    ELSE chars
trim(chars) == trim_end(trim_start(chars))

\* str::eq_ignore_ascii_case
eq_ignore_ascii_case(a, b) ==
    /\ Len(a) = Len(b)
    /\ \A i \in 1..Len(a) : ToUpper(a[i]) = ToUpper(b[i])

\* as parse_requests, had the token been compared as it was received
parse_requests_Exact(line) ==
    IF line.kind = "text" /\ line.chars = <<"V", "E", "R", "S", "I", "O", "N">>
    THEN [ok |-> TRUE, requests |-> << [type |-> "VERSION"] >>]
    ELSE IF line.kind = "json"
    THEN [ok |-> TRUE, requests |-> line.requests]
    ELSE [ok |-> FALSE]

\* parse_requests: the token VERSION, else serde_json::from_str::<Vec<Request>>
parse_requests(line) ==
    IF line.kind = "text"
       /\ eq_ignore_ascii_case(trim(line.chars), <<"V", "E", "R", "S", "I", "O", "N">>)
    THEN [ok |-> TRUE, requests |-> << [type |-> "VERSION"] >>]
    ELSE IF line.kind = "json"
    THEN [ok |-> TRUE, requests |-> line.requests]
    ELSE [ok |-> FALSE]

\* send_responses: what is written to the stream. Response::Version is
\* skipped by serde, so an array that holds it elsewhere cannot be written
send_responses(responses) ==
    IF responses # << >> /\ responses[1].type = "VERSION"
    THEN [ok |-> TRUE, format |-> "plaintext", text |-> <<VERSION, "\n">>]
    ELSE IF \E i \in DOMAIN responses : responses[i].type = "VERSION"
    THEN [ok |-> FALSE]
    ELSE [ok |-> TRUE, format |-> "json", array |-> responses]

\* the error of one failed TcpListener::bind with the context of line 300,
\* and anyhow's Error::context
BindError(port) ==
    [kind |-> "context",
     context |-> [kind |-> "msg", text |-> "failed to listen on port", port |-> port],
     source |-> [kind |-> "io", text |-> "AddrInUse", port |-> port]]
Error_context(err, context) == [kind |-> "context", context |-> context, source |-> err]

\* as chain_errors, had only the last error been kept
chain_errors_KeepsLast(errors, err) == <<err>>

\* ap_remote.rs 306-309: errors is None or holds the errors so far
chain_errors(errors, err) ==
    IF errors = << >> THEN <<err>> ELSE <<Error_context(err, errors[1])>>

\* bind_socket: the loop from the given port on
RECURSIVE bind_socket_from(_, _, _)
bind_socket_from(occupied, port, errors) ==
    IF port >= FIRST_PORT + 5
    THEN [ok |-> FALSE,
          err |-> IF errors = << >>
                  THEN [kind |-> "msg", text |-> "empty range of ports", port |-> 0]
                  ELSE Error_context(errors[1],
                          [kind |-> "msg", text |-> "no port found to listen on", port |-> 0])]
    ELSE IF port \notin occupied
    THEN [ok |-> TRUE, port |-> port]
    ELSE bind_socket_from(occupied, port + 1, chain_errors(errors, BindError(port)))

bind_socket(occupied) == bind_socket_from(occupied, FIRST_PORT, << >>)

----------------------------------------------------------------------------
(* The datagrams of the UDP protocol (remote.rs) *)

\* char::to_digit: 16 and more stand for no digit
DigitValue(c) ==
    CASE c = "0" -> 0 [] c = "1" -> 1 [] c = "2" -> 2 [] c = "3" -> 3 [] c = "4" -> 4
      [] c = "5" -> 5 [] c = "6" -> 6 [] c = "7" -> 7 [] c = "8" -> 8 [] c = "9" -> 9
      [] c \in {"a", "A"} -> 10 [] c \in {"b", "B"} -> 11 [] c \in {"c", "C"} -> 12
      [] c \in {"d", "D"} -> 13 [] c \in {"e", "E"} -> 14 [] c \in {"f", "F"} -> 15
      [] OTHER -> 16

\* the digits of from_str_radix from position i on: a character that is no
\* digit, and overflow, are errors
RECURSIVE from_str_radix_from(_, _, _, _, _)
from_str_radix_from(chars, i, radix, max, acc) ==
    IF i > Len(chars) THEN [ok |-> TRUE, value |-> acc]
    ELSE IF DigitValue(chars[i]) >= radix THEN [ok |-> FALSE]
    ELSE IF acc * radix + DigitValue(chars[i]) > max THEN [ok |-> FALSE]
    ELSE from_str_radix_from(chars, i + 1, radix, max, acc * radix + DigitValue(chars[i]))

\* from_str_radix and str::parse of an unsigned type with the given maximum:
\* one leading "+" is taken as a sign; no digits are an error, and so is "-",
\* no digit of an unsigned type
from_str_radix(chars, radix, max) ==
    IF chars = << >> THEN [ok |-> FALSE]
    ELSE IF chars[1] = "+"
    THEN IF Len(chars) = 1 THEN [ok |-> FALSE]
         ELSE from_str_radix_from(chars, 2, radix, max, 0)
    ELSE from_str_radix_from(chars, 1, radix, max, 0)

\* str::strip_prefix("0x").unwrap_or(..)
strip_prefix_0x(chars) ==
    IF Len(chars) >= 2 /\ chars[1] = "0" /\ chars[2] = "x"
    THEN SubSeq(chars, 3, Len(chars))
    ELSE chars

\* remote.rs 121-122: String::with_capacity("READ_CORE_MEMORY ".len() +
\* address_str.len() + len * 3 + 1). The arithmetic panics on overflow when
\* the build checks it and wraps otherwise; a capacity above isize::MAX
\* panics with "capacity overflow"; a capacity the allocator does not have
\* (ALLOC_MAX stands for the memory of the machine) ends the process in
\* handle_alloc_error
String_with_capacity(address_str, len) ==
    LET sum == 17 + Len(address_str) + len * 3 + 1
        capacity == sum % (USIZE_MAX + 1)
        ISIZE_MAX == 2^(USIZE_BITS - 1) - 1
        ALLOC_MAX == 2^(USIZE_BITS - 4)
    IN  IF sum > USIZE_MAX /\ overflow_checks THEN "panic"
        ELSE IF capacity > ISIZE_MAX THEN "panic"
        ELSE IF capacity > ALLOC_MAX THEN "abort"
        ELSE "ok"

\* the bytes of the arguments of WRITE_CORE_MEMORY, or none when one of them
\* is no byte
ParsedBytes(args) ==
    IF \A i \in DOMAIN args : from_str_radix(strip_prefix_0x(args[i]), 16, U8_MAX).ok
    THEN <<[i \in DOMAIN args |-> from_str_radix(strip_prefix_0x(args[i]), 16, U8_MAX).value]>>
    ELSE << >>

\* CommandContext::reply: socket.send_to(message, reply_addr)?, which fails
\* for an address nothing can be sent to, one with port 0
reply(reply_addr, message) ==
    IF reply_addr = 0 THEN [outcome |-> "err", reply |-> << >>]
    ELSE [outcome |-> "ok", reply |-> <<message>>]

\* handle_message and handle_command up to the call of Handle::run: how the
\* handling ends without one ("ok" with the replies sent, "err", "panic",
\* or "abort" when the process ends), or the closure the command passes to
\* core_handle.run
handle_message(reply_addr, datagram) ==
    LET Err == [outcome |-> "err", reply |-> << >>]
        Run(f) == [outcome |-> "run", f |-> f]
        args == datagram.args
    IN  IF ~datagram.utf8 THEN Err
        ELSE IF datagram.command = << >> THEN Err
        ELSE LET command == datagram.command[1]
             IN  CASE command = "VERSION" -> reply(reply_addr, <<"1.14.0", "\n">>)
                   [] command = "GET_STATUS" -> Run([src |-> "udp", op |-> "get_system_info"])
                   [] command = "READ_CORE_MEMORY" ->
                        IF Len(args) < 2 THEN Err
                        ELSE LET address == from_str_radix(strip_prefix_0x(args[1]), 16, USIZE_MAX)
                                 len == from_str_radix(args[2], 10, USIZE_MAX)
                             IN  IF ~address.ok \/ ~len.ok THEN Err
                                 ELSE IF String_with_capacity(args[1], len.value) # "ok"
                                 THEN [outcome |-> String_with_capacity(args[1], len.value),
                                       reply |-> << >>]
                                 ELSE Run([src |-> "udp", op |-> "get_memory",
                                           address |-> address.value, len |-> len.value])
                   [] command = "WRITE_CORE_MEMORY" ->
                        IF args = << >> THEN Err
                        ELSE LET address == from_str_radix(strip_prefix_0x(args[1]), 16, USIZE_MAX)
                                 bytes == ParsedBytes(Tail(args))
                             IN  IF ~address.ok \/ bytes = << >> THEN Err
                                 ELSE Run([src |-> "udp", op |-> "write_memory",
                                           address |-> address.value, bytes |-> bytes[1]])
                   [] OTHER -> [outcome |-> "ok", reply |-> << >>]

\* the reply a command sends when core_handle.run has returned result
reply_message(datagram, result) ==
    LET command == datagram.command[1]
        args == datagram.args
    IN  CASE command = "GET_STATUS" -> <<"GET_STATUS", "PLAYING", result, "\n">>
          [] command = "READ_CORE_MEMORY" ->
                <<"READ_CORE_MEMORY", args[1]>> \o result \o <<"\n">>
          [] command = "WRITE_CORE_MEMORY" -> <<"WRITE_CORE_MEMORY", args[1], result, "\n">>

\* before try_start has run; call and ret are history: the datagram the
\* listener handles, and how handle_message ended with the replies sent
UdpNotStarted == [status |-> "not_started", call |-> None, ret |-> None]

\* before try_start has run, and before a client has connected
NotStarted == [status |-> "not_started", occupied |-> {}]
\* locked is history: the plugin's memory as the last line left it, while the
\* client's last LOCK has not been followed by an UNLOCK
NoConnection == [status |-> "none", prev_guard |-> << >>, locked |-> << >>]

----------------------------------------------------------------------------
(* The plugin behind the C ABI *)

\* retro_run: one frame; this plugin counts frames modulo 2 in the last byte
\* of its buffer
retro_run(mem) == [mem EXCEPT ![1] = 1 - @]

\* Core::state: retro_serialize reports whether it has written the plugin's
\* state, which for this plugin is its buffer
Core_state(mem, success) ==
    IF success THEN [ok |-> TRUE, value |-> mem]
    ELSE [ok |-> FALSE, err |-> "state serialization failed"]

\* Core::restore_state: retro_unserialize reports whether it has taken the
\* snapshot; this plugin leaves its buffer as it is when it has not
Core_restore_state(mem, snapshot, success) ==
    IF success THEN [memory |-> snapshot, result |-> [ok |-> TRUE]]
    ELSE [memory |-> mem, result |-> [ok |-> FALSE, err |-> "failed to restore state"]]

----------------------------------------------------------------------------
(* The closures the other threads pass to Handle::run *)

\* Gui::new: nothing saved yet (save_state is an Option, here a sequence of
\* at most one snapshot)
GuiStarted == [save_state |-> << >>, status |-> "running"]

\* gui.rs, one call of update: Shift+F1 saves the state, F1 restores the
\* state saved last if there is one, then the rupee counter and one frame
GuiOps(g) ==
    IF g.status # "running" THEN {}
    ELSE {[src |-> "gui", op |-> "state"], [src |-> "gui", op |-> "run"],
          [src |-> "gui", op |-> "get_memory", address |-> 0, len |-> 2]}
         \cup {[src |-> "gui", op |-> "restore_state", snapshot |-> g.save_state[i]] :
                    i \in DOMAIN g.save_state}

\* what update does with the Result Handle::run gave it: it unwraps it, and
\* the Result of state and restore_state inside it; it keeps the snapshot
\* (gui.rs 78) and indexes the two bytes of the rupee counter (gui.rs 122)
Gui_after(g, f, result) ==
    LET panicked == [g EXCEPT !.status = "panicked"]
    IN  IF "err" \in DOMAIN result THEN panicked
        ELSE CASE f.op = "state" ->
                    IF result.val.ok THEN [g EXCEPT !.save_state = <<result.val.value>>]
                    ELSE panicked
               [] f.op = "restore_state" -> IF result.val.ok THEN g ELSE panicked
               [] f.op = "get_memory" -> IF Len(result.val) < 2 THEN panicked ELSE g
               [] OTHER -> g

\* thread 1 is the GUI thread; the others are network threads, the handler
\* of a TCP connection or the UDP listener
GuiThread == 1

\* in the specifications of the network interfaces the GUI thread makes no
\* call: thread 1 is the listener of remote.rs and thread 2 the handler of
\* the connection of ap_remote.rs
UdpThread == 1
TcpThread == 2

\* the closures of the network threads: those of READ_CORE_MEMORY and
\* WRITE_CORE_MEMORY (remote.rs) and the one of a line of requests
\* (ap_remote.rs)
NetworkOps ==
    {[src |-> "udp", op |-> "get_memory", address |-> 0, len |-> 1],
     [src |-> "udp", op |-> "write_memory", address |-> 1, bytes |-> <<1, 1>>],
     [src |-> "tcp", op |-> "handle_requests", requests |->
        <<[type |-> "GUARD", address |-> 0, expected_data |-> <<0>>, domain |-> "System Bus"],
          [type |-> "WRITE", address |-> 0, value |-> <<1>>]>>]}

\* the closures a thread submits
ClosureOps(t) == IF t = GuiThread THEN GuiOps(gui) ELSE NetworkOps

\* as Closure, had a command handled one request of the line, not the line
Closure_OneRequest(f, st, mem, success) ==
    CASE f.op = "state" -> [memory |-> mem, result |-> Core_state(mem, success)]
      [] f.op = "restore_state" -> Core_restore_state(mem, f.snapshot, success)
      [] f.op = "run" -> [memory |-> retro_run(mem), result |-> "unit"]
      [] f.op = "get_memory" ->
            LET to_vec(data) == IF data = Panic THEN Panicked(mem)
                                ELSE [memory |-> mem, result |-> data.value]
            IN  to_vec(get_memory(st, mem, f.address, f.len))
      [] f.op = "get_system_info" -> [memory |-> mem, result |-> "SystemInfo"]
      [] f.op = "write_memory" ->
            LET wrote(written) == IF written = Panic THEN Panicked(mem)
                                  ELSE [memory |-> written.memory, result |-> written.len]
            IN  wrote(write_memory(st, mem, f.address, f.bytes))
      [] f.op = "handle_requests" ->
            LET done(handled) ==
                    IF handled = Panicked(handled.memory) THEN handled
                    ELSE [memory |-> handled.memory, result |-> handled.responses]
            IN  done(handle_requests(SubSeq(f.requests, 1, 1), st, mem))

\* f(core): the plugin's buffer afterwards, and f's result, or Panicked with
\* the buffer as f left it when f panics; success is what the plugin reports
\* when f asks it to serialize or unserialize its state
Closure(f, st, mem, success) ==
    CASE f.op = "state" -> [memory |-> mem, result |-> Core_state(mem, success)]
      [] f.op = "restore_state" -> Core_restore_state(mem, f.snapshot, success)
      [] f.op = "run" -> [memory |-> retro_run(mem), result |-> "unit"]
      [] f.op = "get_memory" ->
            LET to_vec(data) == IF data = Panic THEN Panicked(mem)
                                ELSE [memory |-> mem, result |-> data.value]
            IN  to_vec(get_memory(st, mem, f.address, f.len))
      [] f.op = "get_system_info" -> [memory |-> mem, result |-> "SystemInfo"]
      [] f.op = "write_memory" ->
            LET wrote(written) == IF written = Panic THEN Panicked(mem)
                                  ELSE [memory |-> written.memory, result |-> written.len]
            IN  wrote(write_memory(st, mem, f.address, f.bytes))
      [] f.op = "handle_requests" ->
            LET done(handled) ==
                    IF handled = Panicked(handled.memory) THEN handled
                    ELSE [memory |-> handled.memory, result |-> handled.responses]
            IN  done(handle_requests(f.requests, st, mem))

----------------------------------------------------------------------------
(* Handle::run, on a submitting thread *)

\* as ResultChannel, had all calls shared one result channel
ResultChannel_Shared(t) == 1

\* the result channel Handle::run creates for the call of thread t
ResultChannel(t) == t

\* the boxed run_fn / hook_fn: the closure and the sender of its result
Command(t, f) == [owner |-> t, f |-> f, result_tx |-> ResultChannel(t), result |-> << >>]

HostGone == host \in {"dropped", "panicked"}

\* as Call, had the thread called f on the Core itself and kept the result
Call_Direct(t, f) ==
    /\ pc[t] = "idle"
    /\ f \in ClosureOps(t)
    /\ \E success \in BOOLEAN :
        \E out \in {Closure(f, state, memory, success)} :
            /\ out # Panicked(out.memory)
            /\ memory' = out.memory
            /\ got' = [got EXCEPT ![t] = [by |-> t, val |-> out.result]]
    /\ execs' = [execs EXCEPT ![t] = 1]
    /\ pc' = [pc EXCEPT ![t] = "returned"]
    /\ pending' = [pending EXCEPT ![t] = f]
    /\ UNCHANGED <<host_kind, host, taken, rx, run_fn, result_dropped, active, arrived,
                   load_vars, obs_vars, front_vars>>

\* A thread wants f done: Handle::run up to the send. The thread creates the
\* result channel and boxes f with the sender; it has no Core to call f on
Call(t, f) ==
    /\ pc[t] = "idle"
    /\ f \in ClosureOps(t)
    /\ got' = [got EXCEPT ![t] = None]
    /\ execs' = [execs EXCEPT ![t] = 0]
    /\ pc' = [pc EXCEPT ![t] = "sending"]
    /\ pending' = [pending EXCEPT ![t] = f]
    /\ UNCHANGED <<host_kind, host, taken, rx, run_fn, result_dropped, memory, active,
                   arrived, load_vars, obs_vars, front_vars>>

\* hook.rs: self.tx.send(hook_fn) returns once the command is in the buffer
SendBuffered(t) ==
    /\ host_kind = "hook"
    /\ pc[t] = "sending"
    /\ ~HostGone
    /\ Len(rx) < buffer_size
    /\ rx' = Append(rx, Command(t, pending[t]))
    /\ arrived' = Append(arrived, t)
    /\ pc' = [pc EXCEPT ![t] = "sent"]
    /\ UNCHANGED <<host_kind, host, taken, run_fn, pending, got, result_dropped, memory,
                   active, execs, load_vars, obs_vars, front_vars>>

\* self.tx.send fails when the Host, and its receiver with it, is gone
SendClosed(t) ==
    /\ pc[t] = "sending"
    /\ HostGone
    /\ pc' = [pc EXCEPT ![t] = "closed"]
    /\ got' = [got EXCEPT ![t] = [err |-> "channel closed"]]
    /\ UNCHANGED <<host_kind, host, taken, rx, run_fn, pending, result_dropped, memory,
                   active, arrived, execs, load_vars, obs_vars, front_vars>>

\* the send has returned: the thread enters result_rx.recv()
Recv(t) ==
    /\ pc[t] = "sent"
    /\ pc' = [pc EXCEPT ![t] = "waiting"]
    /\ UNCHANGED <<host_kind, host, taken, rx, run_fn, pending, got, result_dropped,
                   memory, active, arrived, execs,
                   load_vars, obs_vars, front_vars>>

\* result_rx.recv() fails when the closure was dropped with its result_tx:
\* expect("BUG: ... result receiver closed") panics
RecvDisconnected(t) ==
    /\ pc[t] = "waiting"
    /\ ResultChannel(t) \in result_dropped
    /\ pc' = [pc EXCEPT ![t] = "panicked"]
    /\ UNCHANGED <<host_kind, host, taken, rx, run_fn, pending, got, result_dropped,
                   memory, active, arrived, execs,
                   load_vars, obs_vars, front_vars>>

\* Handle::run has returned to its caller
Return(t) ==
    /\ pc[t] \in {"returned", "closed"}
    /\ pc' = [pc EXCEPT ![t] = "idle"]
    /\ pending' = [pending EXCEPT ![t] = None]
    /\ got' = [got EXCEPT ![t] = None]
    /\ gui' = IF t = GuiThread THEN Gui_after(gui, pending[t], got[t]) ELSE gui
    /\ UNCHANGED <<host_kind, host, taken, rx, run_fn, result_dropped, memory, active,
                   arrived, execs, load_vars, obs_vars, tcp_vars, udp, overflow_checks>>

----------------------------------------------------------------------------
(* The owning thread: its loop and Host::run *)

\* Host::run is entered: core/handle.rs blocks in self.rx.recv(), hook.rs
\* starts self.rx.try_iter().take(self.buffer_size)
HostRun ==
    /\ host = "loop"
    /\ host' = IF host_kind = "handle" THEN "recv" ELSE "drain"
    /\ taken' = 0
    /\ UNCHANGED <<host_kind, rx, run_fn, pc, pending, got, result_dropped, memory, active,
                   arrived, execs, load_vars, obs_vars, front_vars>>

\* as HostRecv, had Host::run handed run_fn to another thread and gone back
\* to recv() without waiting for it to finish
HostRecv_Concurrent(t) ==
    /\ host_kind = "handle"
    /\ host \in {"recv", "exec"}
    /\ pc[t] = "sending"
    /\ run_fn' = Command(t, pending[t])
    /\ arrived' = Append(arrived, t)
    /\ active' = active \cup {t}
    /\ pc' = [pc EXCEPT ![t] = "sent"]
    /\ host' = "exec"
    /\ UNCHANGED <<host_kind, taken, rx, pending, got, result_dropped, memory, execs,
                   load_vars, obs_vars, front_vars>>

\* core/handle.rs, capacity 0: recv() of the Host and send() of thread t meet
HostRecv(t) ==
    /\ host_kind = "handle"
    /\ host = "recv"
    /\ pc[t] = "sending"
    /\ run_fn' = Command(t, pending[t])
    /\ arrived' = Append(arrived, t)
    /\ active' = active \cup {t}
    /\ pc' = [pc EXCEPT ![t] = "sent"]
    /\ host' = "exec"
    /\ UNCHANGED <<host_kind, taken, rx, pending, got, result_dropped, memory, execs,
                   load_vars, obs_vars, front_vars>>

\* hook.rs: the next item of try_iter().take(buffer_size), or the end of the loop
HostTryRecv ==
    /\ host_kind = "hook"
    /\ host = "drain"
    /\ IF rx # << >> /\ taken < buffer_size
       THEN /\ run_fn' = Head(rx)
            /\ rx' = Tail(rx)
            /\ taken' = taken + 1
            /\ active' = active \cup {Head(rx).owner}
            /\ host' = "exec"
       ELSE /\ host' = "step"
            /\ taken' = 0
            /\ UNCHANGED <<rx, run_fn, active>>
    /\ UNCHANGED <<host_kind, pc, pending, got, result_dropped, memory, arrived,
                   execs, load_vars, obs_vars, front_vars>>

\* the result channels of the commands in a buffer
ResultChannelsOf(buffer) == {buffer[i].result_tx : i \in 1..Len(buffer)}

\* run_fn(core): let result = f(core). The history of the line or of the
\* datagram whose closure this is gets the plugin's memory as f found it and
\* as f left it. A panic of f unwinds the owning thread: the closure, the
\* sender of its result and the Host are dropped
HostExec ==
    /\ host = "exec"
    /\ \E success \in BOOLEAN :
        \E out \in {Closure(run_fn.f, state, memory, success)} :
            IF out = Panicked(out.memory)
            THEN /\ host' = "panicked"
                 /\ memory' = out.memory
                 /\ result_dropped' =
                        result_dropped \cup {run_fn.result_tx} \cup ResultChannelsOf(rx)
                 /\ rx' = << >>
                 /\ run_fn' = None
                 /\ active' = active \ {run_fn.owner}
                 /\ UNCHANGED <<call, udp>>
            ELSE /\ host' = "result"
                 /\ memory' = out.memory
                 /\ run_fn' = [run_fn EXCEPT
                                    !.result = <<[by |-> run_fn.owner, val |-> out.result]>>]
                 /\ call' = IF call # None /\ call.op = "line" /\ run_fn.f.src = "tcp"
                            THEN [call EXCEPT !.before = memory, !.after = out.memory]
                            ELSE call
                 /\ udp' = IF udp.call # None /\ run_fn.f.src = "udp"
                           THEN [udp EXCEPT !.call.before = memory,
                                            !.call.after = out.memory]
                           ELSE udp
                 /\ UNCHANGED <<rx, result_dropped, active>>
    /\ execs' = [execs EXCEPT ![run_fn.owner] = @ + 1]
    /\ arrived' = IF arrived # << >> /\ Head(arrived) = run_fn.owner THEN Tail(arrived)
                  ELSE SelectSeq(arrived, LAMBDA u : u # run_fn.owner)
    /\ UNCHANGED <<host_kind, taken, pc, pending, got, load_vars, ret, tcp_vars, gui,
                   overflow_checks>>

\* where the owning thread goes when run_fn returns
AfterCommand == IF host_kind = "handle" THEN "step" ELSE "drain"

\* core/handle.rs: result_tx.send(result) on the capacity 0 result channel
\* returns when the submitting thread is in result_rx.recv()
HostSendResult(u) ==
    /\ host_kind = "handle"
    /\ host = "result"
    /\ pc[u] = "waiting"
    /\ ResultChannel(u) = run_fn.result_tx
    /\ got' = [got EXCEPT ![u] = run_fn.result[1]]
    /\ pc' = [pc EXCEPT ![u] = "returned"]
    /\ active' = active \ {run_fn.owner}
    /\ run_fn' = None
    /\ host' = AfterCommand
    /\ UNCHANGED <<host_kind, taken, rx, pending, result_dropped, memory, arrived,
                   execs, load_vars, obs_vars, front_vars>>

\* hook.rs: result_tx.try_send(result) succeeds when a thread is already in
\* result_rx.recv() on that channel
HostTrySend(u) ==
    /\ host_kind = "hook"
    /\ host = "result"
    /\ pc[u] = "waiting"
    /\ ResultChannel(u) = run_fn.result_tx
    /\ got' = [got EXCEPT ![u] = run_fn.result[1]]
    /\ pc' = [pc EXCEPT ![u] = "returned"]
    /\ active' = active \ {run_fn.owner}
    /\ run_fn' = None
    /\ host' = AfterCommand
    /\ UNCHANGED <<host_kind, taken, rx, pending, result_dropped, memory, arrived,
                   execs, load_vars, obs_vars, front_vars>>

\* hook.rs: try_send on the capacity 0 result channel is Err(Full) when no
\* thread is in recv() yet: expect("BUG: hook result sender closed") panics on
\* the owning thread, whose unwinding drops the closure and the Host
HostTrySendFull ==
    /\ host_kind = "hook"
    /\ host = "result"
    /\ ~ \E u \in Clients : pc[u] = "waiting" /\ ResultChannel(u) = run_fn.result_tx
    /\ host' = "panicked"
    /\ result_dropped' = result_dropped \cup {run_fn.result_tx} \cup ResultChannelsOf(rx)
    /\ rx' = << >>
    /\ run_fn' = None
    /\ active' = active \ {run_fn.owner}
    /\ UNCHANGED <<host_kind, taken, pc, pending, got, memory, arrived, execs,
                   load_vars, obs_vars, front_vars>>

\* the per-iteration work of the owning thread's loop: core.run() begins
OwnerStepBegin ==
    /\ host = "step"
    /\ host' = "in_run"
    /\ active' = active \cup {OwnerThread}
    /\ UNCHANGED <<host_kind, taken, rx, run_fn, pc, pending, got, result_dropped, memory,
                   arrived, execs, load_vars, obs_vars, front_vars>>

\* core.run() returns to the loop
OwnerStepEnd ==
    /\ host = "in_run"
    /\ host' = "loop"
    /\ memory' = retro_run(memory)
    /\ active' = active \ {OwnerThread}
    /\ UNCHANGED <<host_kind, taken, rx, run_fn, pc, pending, got, result_dropped, arrived,
                   execs, load_vars, obs_vars, front_vars>>

\* the owning thread leaves its loop and drops the Host: the receiver goes,
\* and the commands still buffered are dropped with their result senders
OwnerExit ==
    /\ host = "loop"
    /\ host' = "dropped"
    /\ result_dropped' = result_dropped \cup ResultChannelsOf(rx)
    /\ rx' = << >>
    /\ UNCHANGED <<host_kind, taken, run_fn, pc, pending, got, memory, active,
                   arrived, execs, load_vars, obs_vars, front_vars>>

----------------------------------------------------------------------------
(* Core::load (core.rs) *)

\* the ABI versions a plugin may report, and the pixel formats a handler may support
ApiVersions == {EXPECTED_LIB_RETRO_VERSION, EXPECTED_LIB_RETRO_VERSION + 1}
HandlerSupports == {{}, {ARGB8888}, {ARGB8888, RGB565}}

\* as check_api_version_match, had the comparison been left out
check_api_version_match_Any(api_version) == TRUE

\* Core::check_api_version_match
check_api_version_match(api_version) == api_version = EXPECTED_LIB_RETRO_VERSION

\* core.rs 226-231: the plugin's entry points register_callbacks calls, each
\* with one of the bridge functions
RetroSetCalls ==
    <<"retro_set_environment", "retro_set_video_refresh", "retro_set_audio_sample",
      "retro_set_audio_sample_batch", "retro_set_input_poll", "retro_set_input_state">>

\* what a load calls up to and including retro_load_game
LoadCalls ==
    <<"retro_api_version", "register_callbacks">> \o RetroSetCalls
        \o <<"retro_init", "retro_load_game">>

\* the most loads a body makes, and the most loads inside one another
MaxNested == 1

\* as LoadGameFailedCalls, had the failure path shared the unload of line 66
LoadGameFailedCalls_Unload == <<"retro_unload_game", "retro_deinit">>

\* core.rs 59: what a load calls when load_game has failed, before it returns
LoadGameFailedCalls == <<"retro_deinit">>

\* as UnloadCalls, had retro_deinit been called before retro_unload_game
UnloadCalls_DeinitFirst ==
    <<"retro_deinit", "retro_unload_game", "callbacks_drop", "state_reset">>

\* core.rs 66-71: what a load calls after the body has returned, two entry
\* points of the plugin and then the two resets
UnloadCalls == <<"retro_unload_game", "retro_deinit", "callbacks_drop", "state_reset">>

\* the call history alternates a tick, so that two equal calls in a row differ
Tick(c) == IF c = None THEN 0 ELSE 1 - c.tick

\* the plugin is inside one of its entry points and may call back; inside
\* retro_api_version it does so through the pointers an earlier load gave it
InPlugin ==
    lpc \in {"in_api_version", "in_retro_set", "in_init", "in_load_game", "in_run",
             "in_unload_game", "in_deinit", "in_deinit_failed"}

\* the plugin keeps the function pointers register_callbacks gave it: it
\* calls them from its entry points, and may still call them once the load
\* has returned
MayCallBack == InPlugin \/ lpc \in {"returned", "idle"}

\* Core::load is entered: the one-core-per-thread check, then Api::load, and
\* check_api_version_match enters the plugin's retro_api_version
Load(api_version, supported, symbols_ok) ==
    /\ lpc = "idle"
    /\ config' = [api_version |-> api_version, supported |-> supported]
    /\ IF state.is_core_loaded
       THEN lpc' = "returned" /\ load_result' = "err_core_loaded" /\ api_log' = << >>
       ELSE IF ~symbols_ok
       THEN lpc' = "returned" /\ load_result' = "err_symbol" /\ api_log' = << >>
       ELSE /\ lpc' = "in_api_version"
            /\ load_result' = "none"
            /\ api_log' = <<"retro_api_version">>
    /\ UNCHANGED <<CALLBACKS, state, env_ret, outer, chan_vars, obs_vars, front_vars>>

\* the body calls Core::load on the owning thread, and waits for it: the
\* same function from its first line, with the same thread-locals
LoadSecond(api_version, supported, symbols_ok) ==
    /\ lpc = "body"
    /\ Len(outer) < MaxNested
    /\ Len(SelectSeq(api_log, LAMBDA c : c = "load")) < MaxNested
    /\ outer' = Append(outer, [config |-> config, api_log |-> Append(api_log, "load")])
    /\ config' = [api_version |-> api_version, supported |-> supported]
    /\ IF state.is_core_loaded
       THEN lpc' = "returned" /\ load_result' = "err_core_loaded" /\ api_log' = << >>
       ELSE IF ~symbols_ok
       THEN lpc' = "returned" /\ load_result' = "err_symbol" /\ api_log' = << >>
       ELSE /\ lpc' = "in_api_version"
            /\ load_result' = "none"
            /\ api_log' = <<"retro_api_version">>
    /\ UNCHANGED <<CALLBACKS, state, env_ret, chan_vars, obs_vars, front_vars>>

\* the load the body has called returns, with Ok or Err: the body goes on
LoadSecondReturn ==
    /\ lpc = "returned"
    /\ outer # << >>
    /\ load_result # "panic"
    /\ lpc' = "body"
    /\ config' = outer[Len(outer)].config
    /\ api_log' = outer[Len(outer)].api_log
    /\ outer' = SubSeq(outer, 1, Len(outer) - 1)
    /\ load_result' = "none"
    /\ UNCHANGED <<CALLBACKS, state, env_ret, chan_vars, obs_vars, front_vars>>

\* core.check_api_version_match()?: retro_api_version returns the version
\* of the plugin, which is compared
CheckApiVersion ==
    /\ lpc = "in_api_version"
    /\ IF check_api_version_match(config.api_version)
       THEN lpc' = "register" /\ UNCHANGED load_result
       ELSE lpc' = "returned" /\ load_result' = "err_version"
    /\ UNCHANGED <<CALLBACKS, state, config, api_log, env_ret, outer, chan_vars, obs_vars,
                   front_vars>>

\* core.register_callbacks(config.callbacks): callbacks::register, and the
\* first of the retro_set_* calls is entered
RegisterCallbacks ==
    /\ lpc = "register"
    /\ CALLBACKS' = callbacks_register(Handler(config.supported))
    /\ api_log' = api_log \o <<"register_callbacks", RetroSetCalls[1]>>
    /\ lpc' = "in_retro_set"
    /\ UNCHANGED <<state, config, load_result, env_ret, outer, chan_vars, obs_vars, front_vars>>

\* a retro_set_* call returns: the next one is entered, or after the last
\* one register_callbacks returns
RetroSetReturn ==
    /\ lpc = "in_retro_set"
    /\ LET k == Len(SelectSeq(api_log, LAMBDA c : \E i \in DOMAIN RetroSetCalls :
                                                    c = RetroSetCalls[i]))
       IN  IF k < Len(RetroSetCalls)
           THEN api_log' = Append(api_log, RetroSetCalls[k + 1]) /\ UNCHANGED lpc
           ELSE lpc' = "retro_init" /\ UNCHANGED api_log
    /\ UNCHANGED <<CALLBACKS, state, config, load_result, env_ret, outer, chan_vars, obs_vars,
                   front_vars>>

\* (core.api.retro_init)() is called
RetroInit ==
    /\ lpc = "retro_init"
    /\ api_log' = Append(api_log, "retro_init")
    /\ lpc' = "in_init"
    /\ UNCHANGED <<CALLBACKS, state, config, load_result, env_ret, outer, chan_vars, obs_vars, front_vars>>

\* retro_init returns; load_game reads the content file and, when that
\* succeeds, calls retro_load_game
LoadGame(rom_readable) ==
    /\ lpc = "in_init"
    /\ IF rom_readable
       THEN lpc' = "in_load_game" /\ api_log' = Append(api_log, "retro_load_game")
       ELSE lpc' = "load_game_failed" /\ UNCHANGED api_log
    /\ UNCHANGED <<CALLBACKS, state, config, load_result, env_ret, outer, chan_vars, obs_vars, front_vars>>

\* retro_load_game returns whether the plugin accepts the content; when it
\* does the body f(&mut core) starts
LoadGameReturn(load_game_successful) ==
    /\ lpc = "in_load_game"
    /\ IF load_game_successful
       THEN lpc' = "body" /\ api_log' = Append(api_log, "f")
       ELSE lpc' = "load_game_failed" /\ UNCHANGED api_log
    /\ UNCHANGED <<CALLBACKS, state, config, load_result, env_ret, outer, chan_vars, obs_vars, front_vars>>

\* core.rs 58-59: load_game returned Err; retro_deinit is entered
LoadGameFailed ==
    /\ lpc = "load_game_failed"
    /\ api_log' = api_log \o LoadGameFailedCalls
    /\ lpc' = "in_deinit_failed"
    /\ UNCHANGED <<CALLBACKS, state, config, load_result, env_ret, outer, chan_vars, obs_vars,
                   front_vars>>

\* core.rs 61: retro_deinit returns and load returns the error
LoadGameFailedReturn ==
    /\ lpc = "in_deinit_failed"
    /\ lpc' = "returned"
    /\ load_result' = "err_load_game"
    /\ UNCHANGED <<CALLBACKS, state, config, api_log, env_ret, outer, chan_vars, obs_vars,
                   front_vars>>

\* the body calls core.run(): retro_run is entered
BodyRun ==
    /\ lpc = "body"
    /\ lpc' = "in_run"
    /\ UNCHANGED <<CALLBACKS, state, config, api_log, load_result, env_ret, outer, chan_vars, obs_vars, front_vars>>

\* retro_run returns to the body: the plugin has run one frame
BodyRunReturn ==
    /\ lpc = "in_run"
    /\ lpc' = "body"
    /\ memory' = retro_run(memory)
    /\ UNCHANGED <<CALLBACKS, state, config, api_log, load_result, env_ret, outer, obs_vars,
                   front_vars, host_kind, host, taken, rx, run_fn, pc, pending, got,
                   result_dropped, active, arrived, execs>>

\* the body panics: the unwinding leaves Core::load at line 64, and the
\* loads around it as well
BodyPanic ==
    /\ lpc = "body"
    /\ lpc' = "returned"
    /\ load_result' = "panic"
    /\ outer' = << >>
    /\ UNCHANGED <<CALLBACKS, state, config, api_log, env_ret, chan_vars, obs_vars, front_vars>>

\* core.rs 64-66: the body returns and retro_unload_game is entered
BodyReturn ==
    /\ lpc = "body"
    /\ api_log' = Append(api_log, UnloadCalls[1])
    /\ lpc' = "in_unload_game"
    /\ UNCHANGED <<CALLBACKS, state, config, load_result, env_ret, outer, chan_vars, obs_vars,
                   front_vars>>

\* core.rs 67: retro_unload_game returns and retro_deinit is entered
UnloadGameReturn ==
    /\ lpc = "in_unload_game"
    /\ api_log' = Append(api_log, UnloadCalls[2])
    /\ lpc' = "in_deinit"
    /\ UNCHANGED <<CALLBACKS, state, config, load_result, env_ret, outer, chan_vars, obs_vars,
                   front_vars>>

\* as DeinitReturn, had STATE.set(State::new()) of line 71 been left out
DeinitReturn_NoReset ==
    /\ lpc = "in_deinit"
    /\ api_log' = api_log \o SubSeq(UnloadCalls, 3, 4)
    /\ CALLBACKS' = callbacks_drop
    /\ lpc' = "returned"
    /\ load_result' = "ok"
    /\ UNCHANGED <<state, config, env_ret, outer, chan_vars, obs_vars, front_vars>>

\* core.rs 69-73: retro_deinit returns; callbacks::drop(),
\* STATE.set(State::new()), Ok(res)
DeinitReturn ==
    /\ lpc = "in_deinit"
    /\ api_log' = api_log \o SubSeq(UnloadCalls, 3, 4)
    /\ CALLBACKS' = callbacks_drop
    /\ state' = State_new
    /\ lpc' = "returned"
    /\ load_result' = "ok"
    /\ UNCHANGED <<config, env_ret, outer, chan_vars, obs_vars, front_vars>>

\* as environment, had the format been stored whether supported or not
environment_StoreUnsupported(command, data) ==
    /\ MayCallBack
    /\ IF command = "SET_PIXEL_FORMAT"
       THEN LET pixel_format == PixelFormat_from_uint(data)
            IN  IF pixel_format = << >>
                THEN env_ret' = FALSE /\ UNCHANGED state
                ELSE /\ state' = [state EXCEPT !.pixel_format = pixel_format[1]]
                     /\ env_ret' = supports_pixel_format(CALLBACKS, pixel_format[1])
       ELSE IF command = "GET_CAN_DUPE"
       THEN env_ret' = TRUE /\ UNCHANGED state
       ELSE env_ret' = FALSE /\ UNCHANGED state
    /\ call' = [op |-> "environment", command |-> command, data |-> data, tick |-> Tick(call)]
    /\ ret' = None
    /\ UNCHANGED <<CALLBACKS, lpc, config, api_log, load_result, outer, chan_vars, front_vars>>

\* callbacks::ffi::environment(command, data) called by the plugin
\* SET_PIXEL_FORMAT carries the format as a uint, GET_CAN_DUPE a bool to set.
\* What it returns is env_ret; the history ret of an earlier call is cleared
environment(command, data) ==
    /\ MayCallBack
    /\ IF command = "SET_PIXEL_FORMAT"
       THEN LET pixel_format == PixelFormat_from_uint(data)
            IN  IF pixel_format = << >>
                THEN env_ret' = FALSE /\ UNCHANGED state
                ELSE LET supported == supports_pixel_format(CALLBACKS, pixel_format[1])
                     IN  /\ state' = IF supported
                                     THEN [state EXCEPT !.pixel_format = pixel_format[1]]
                                     ELSE state
                         /\ env_ret' = supported
       ELSE IF command = "GET_CAN_DUPE"
       THEN env_ret' = TRUE /\ UNCHANGED state
       ELSE env_ret' = FALSE /\ UNCHANGED state
    /\ call' = [op |-> "environment", command |-> command, data |-> data, tick |-> Tick(call)]
    /\ ret' = None
    /\ UNCHANGED <<CALLBACKS, lpc, config, api_log, load_result, outer, chan_vars, front_vars>>

\* callbacks::ffi::video_refresh called by the plugin: the frame is decoded
\* with the pixel format STATE holds, then handed to the callbacks
video_refresh ==
    /\ MayCallBack
    /\ call' = [op |-> "video_refresh", tick |-> Tick(call)]
    /\ ret' = [pixel_format |-> state.pixel_format]
    /\ UNCHANGED <<CALLBACKS, state, lpc, config, api_log, load_result, env_ret, outer, chan_vars, front_vars>>

\* callbacks::ffi::input_state called by the plugin: the query goes to
\* whatever the slot CALLBACKS holds
input_state(id) ==
    /\ MayCallBack
    /\ call' = [op |-> "input_state", id |-> id, tick |-> Tick(call)]
    /\ ret' = [value |-> Callbacks_input_state(CALLBACKS, id), handled_by |-> CALLBACKS]
    /\ UNCHANGED <<CALLBACKS, state, lpc, config, api_log, load_result, env_ret, outer, chan_vars, front_vars>>

\* the caller of Core::load has its result and may call load again
LoadAgain ==
    /\ lpc = "returned"
    /\ outer = << >>
    /\ lpc' = "idle"
    /\ UNCHANGED <<CALLBACKS, state, config, api_log, load_result, env_ret, outer, chan_vars, obs_vars, front_vars>>

----------------------------------------------------------------------------
(* The specification of the channel *)

\* RuntimeState while the body of Core::load runs
LoadedState ==
    [is_core_loaded |-> FALSE, pixel_format |-> ARGB8888, memory_map |-> LoadedMap,
     rom |-> LoadedRom]

Init ==
    /\ host_kind \in {"handle", "hook"}
    /\ host = "loop"
    /\ taken = 0
    /\ rx = << >>
    /\ run_fn = None
    /\ pc = [t \in Clients |-> "idle"]
    /\ pending = [t \in Clients |-> None]
    /\ got = [t \in Clients |-> None]
    /\ result_dropped = {}
    /\ memory = [p \in Phys |-> 0]
    /\ active = {}
    /\ arrived = << >>
    /\ execs = [t \in Clients |-> 0]
    /\ CALLBACKS = Handler({ARGB8888, RGB565})
    /\ state = LoadedState
    /\ lpc = "body"
    /\ config = [api_version |-> EXPECTED_LIB_RETRO_VERSION, supported |-> {ARGB8888, RGB565}]
    /\ api_log = LoadCalls \o <<"f">>
    /\ outer = << >>
    /\ load_result = "none"
    /\ env_ret = FALSE
    /\ call = None
    /\ ret = None
    /\ listener = NotStarted
    /\ conn = NoConnection
    /\ udp = UdpNotStarted
    /\ gui = GuiStarted
    /\ overflow_checks = FALSE

ClientNext(t) ==
    \/ \E f \in ClosureOps(t) : Call(t, f)
    \/ SendBuffered(t)
    \/ SendClosed(t)
    \/ Recv(t)
    \/ RecvDisconnected(t)
    \/ Return(t)

HostNext ==
    \/ HostRun
    \/ \E t \in Clients : HostRecv(t)
    \/ HostTryRecv
    \/ HostExec
    \/ \E u \in Clients : HostSendResult(u)
    \/ \E u \in Clients : HostTrySend(u)
    \/ HostTrySendFull
    \/ OwnerStepBegin
    \/ OwnerStepEnd

Next ==
    \/ \E t \in Clients : ClientNext(t)
    \/ HostNext
    \/ OwnerExit

Spec == Init /\ [][Next]_vars

----------------------------------------------------------------------------
(* The specification of Core::load *)

LoadInit ==
    /\ host_kind = "handle"
    /\ host = "loop"
    /\ taken = 0
    /\ rx = << >>
    /\ run_fn = None
    /\ pc = [t \in Clients |-> "idle"]
    /\ pending = [t \in Clients |-> None]
    /\ got = [t \in Clients |-> None]
    /\ result_dropped = {}
    /\ memory = [p \in Phys |-> 0]
    /\ active = {}
    /\ arrived = << >>
    /\ execs = [t \in Clients |-> 0]
    /\ CALLBACKS = Stub
    /\ state = State_new
    /\ lpc = "idle"
    /\ config = [api_version |-> EXPECTED_LIB_RETRO_VERSION, supported |-> {}]
    /\ api_log = << >>
    /\ outer = << >>
    /\ load_result = "none"
    /\ env_ret = FALSE
    /\ call = None
    /\ ret = None
    /\ listener = NotStarted
    /\ conn = NoConnection
    /\ udp = UdpNotStarted
    /\ gui = GuiStarted
    /\ overflow_checks = FALSE

LoadNext ==
    \/ \E v \in ApiVersions, s \in HandlerSupports, ok \in BOOLEAN : Load(v, s, ok)
    \/ CheckApiVersion
    \/ RegisterCallbacks
    \/ RetroSetReturn
    \/ RetroInit
    \/ \E rom_readable \in BOOLEAN : LoadGame(rom_readable)
    \/ \E ok \in BOOLEAN : LoadGameReturn(ok)
    \/ LoadGameFailed
    \/ LoadGameFailedReturn
    \/ BodyRun
    \/ BodyRunReturn
    \/ BodyPanic
    \/ BodyReturn
    \/ UnloadGameReturn
    \/ DeinitReturn
    \/ \E data \in 0..3 : environment("SET_PIXEL_FORMAT", data)
    \/ \E command \in {"GET_CAN_DUPE", "GET_VARIABLE"} : environment(command, 0)
    \/ video_refresh
    \/ \E id \in {0, 1} : input_state(id)
    \/ \E v \in ApiVersions, s \in HandlerSupports, ok \in BOOLEAN : LoadSecond(v, s, ok)
    \/ LoadSecondReturn
    \/ LoadAgain

LoadSpec == LoadInit /\ [][LoadNext]_vars

----------------------------------------------------------------------------
(* The specification of the address translation and of the memory access:  *)
(* a loaded core whose plugin has supplied any table of descriptors, and   *)
(* the calls made on it                                                    *)

\* the most descriptors a table has
MaxDescriptors == 2

\* the plugin's memory, the addresses asked for and the lengths asked for
MemPhys == 0..2
MemAddrs == 0..3 \cup {USIZE_MAX}
MemLens == 0..2

\* the descriptors a plugin may supply: each points into the plugin's memory;
\* the last ones map the last address of the address space. Of the
\* descriptors with a select mask, which are never used, one per start
MemDescriptors ==
    {d \in [start : {0, 1}, len : {1, 2}, select : {0, 1}, offset : {0, 1}, ptr : {0}] :
        /\ \A p \in (d.ptr + d.offset)..(d.ptr + d.offset + d.len - 1) : p \in MemPhys
        /\ d.select # 0 => d.len = 2 /\ d.offset = 0}
    \cup [start : {USIZE_MAX}, len : {1}, select : {0, 1}, offset : {0}, ptr : {0}]

MemoryMaps == UNION {[1..n -> MemDescriptors] : n \in 0..MaxDescriptors}

\* the byte strings a request may carry
MemBytes == UNION {[1..n -> Byte] : n \in MemLens}

\* the lines without a GUARD. Lines of one or two READ and WRITE requests
\* that reach past the end of a region: two bytes at address 1 and at the
\* last address of the address space. And lines of three requests: a WRITE
\* and then a READ of one of these addresses, with a request that needs no
\* memory before, between or after them
MemBatches ==
    LET read(a) == [type |-> "READ", domain |-> "System Bus", address |-> a, size |-> 2]
        write(a) == [type |-> "WRITE", address |-> a, value |-> <<1, 1>>]
        requests == {read(a) : a \in {1, USIZE_MAX}} \cup {write(a) : a \in {1, USIZE_MAX}}
        others == {[type |-> "PING"], [type |-> "SYSTEM"], [type |-> "HASH"],
                   [type |-> "DISPLAY_MESSAGE"]}
        pairs == {<<write(a), read(a)>> : a \in {1, USIZE_MAX}}
    IN  UNION {[1..n -> requests] : n \in 1..2}
        \cup UNION {{<<other>> \o pair, <<pair[1], other, pair[2]>>, pair \o <<other>>} :
                        <<other, pair>> \in others \X pairs}

\* what a plugin may answer for its save RAM: no memory, an empty region, or
\* a region of its memory
SaveRamRegions ==
    {r \in [null : BOOLEAN, ptr : {0, 1}, len : {0, 2}] :
        /\ r.null => r.ptr = 0 /\ r.len = 2
        /\ ~r.null => r.ptr = 1
        /\ \A p \in r.ptr..(r.ptr + r.len - 1) : p \in MemPhys}

MemInit ==
    /\ host_kind = "handle"
    /\ host = "loop"
    /\ taken = 0
    /\ rx = << >>
    /\ run_fn = None
    /\ pc = [t \in Clients |-> "idle"]
    /\ pending = [t \in Clients |-> None]
    /\ got = [t \in Clients |-> None]
    /\ result_dropped = {}
    /\ memory = [p \in MemPhys |-> 0]
    /\ active = {}
    /\ arrived = << >>
    /\ execs = [t \in Clients |-> 0]
    /\ CALLBACKS = Handler({ARGB8888, RGB565})
    /\ \E map \in MemoryMaps : state = [LoadedState EXCEPT !.memory_map = map]
    /\ lpc = "body"
    /\ config = [api_version |-> EXPECTED_LIB_RETRO_VERSION, supported |-> {ARGB8888, RGB565}]
    /\ api_log = LoadCalls \o <<"f">>
    /\ outer = << >>
    /\ load_result = "none"
    /\ env_ret = FALSE
    /\ call = None
    /\ ret = None
    /\ listener = NotStarted
    /\ conn = NoConnection
    /\ udp = UdpNotStarted
    /\ gui = GuiStarted
    /\ overflow_checks \in BOOLEAN

\* MemoryMap::find_descriptor(addr)
FindDescriptor(addr) ==
    /\ call = None
    /\ call' = [op |-> "find_descriptor", addr |-> addr]
    /\ ret' = find_descriptor(state.memory_map, addr)
    /\ UNCHANGED <<chan_vars, load_vars, front_vars>>

\* MemoryMap::get_slice(addr, max_len), as the pointer and length of the slice
GetSlice(addr, max_len) ==
    /\ call = None
    /\ call' = [op |-> "get_slice", addr |-> addr, max_len |-> max_len]
    /\ ret' = MemoryMap_get_slice(state.memory_map, addr, max_len)
    /\ UNCHANGED <<chan_vars, load_vars, front_vars>>

\* handle_request of a READ request
ReadRequest(domain, address, size) ==
    /\ call = None
    /\ call' = [op |-> "READ", domain |-> domain, address |-> address, size |-> size]
    /\ LET response(r) == IF r = Panic THEN Panic ELSE r.response
       IN  ret' = response(handle_request([type |-> "READ", domain |-> domain,
                                           address |-> address, size |-> size],
                                          state, memory))
    /\ UNCHANGED <<chan_vars, load_vars, front_vars>>

\* Core::write_memory(address, bytes), as WRITE_CORE_MEMORY of remote.rs calls it
WriteMemory(address, bytes) ==
    /\ call = None
    /\ call' = [op |-> "write_memory", address |-> address, bytes |-> bytes,
                before |-> memory]
    /\ LET wrote(r) == IF r = Panic THEN memory' = memory /\ ret' = Panic
                       ELSE memory' = r.memory /\ ret' = [len |-> r.len]
       IN  wrote(write_memory(state, memory, address, bytes))
    /\ UNCHANGED <<host_kind, host, taken, rx, run_fn, pc, pending, got, result_dropped,
                   active, arrived, execs, load_vars, front_vars>>

\* handle_requests for one line of requests, as the closure of
\* try_handle_client runs it
HandleRequests(requests) ==
    /\ call = None
    /\ call' = [op |-> "handle_requests", requests |-> requests, before |-> memory]
    /\ LET done(handled) ==
            /\ memory' = handled.memory
            /\ ret' = IF handled = Panicked(handled.memory) THEN Panic
                      ELSE [responses |-> handled.responses]
       IN  done(handle_requests(requests, state, memory))
    /\ UNCHANGED <<host_kind, host, taken, rx, run_fn, pc, pending, got, result_dropped,
                   active, arrived, execs, load_vars, front_vars>>

\* Core::restore_save_ram(data)
RestoreSaveRam(region, data) ==
    /\ call = None
    /\ call' = [op |-> "restore_save_ram", region |-> region, data |-> data,
                before |-> memory]
    /\ memory' = restore_save_ram(memory, region, data)
    /\ ret' = None
    /\ UNCHANGED <<host_kind, host, taken, rx, run_fn, pc, pending, got, result_dropped,
                   active, arrived, execs, load_vars, front_vars>>

\* Core::get_save_ram_mut(), and the caller stores byte at index i of the
\* slice it got
SaveRamMutStore(region, i, byte) ==
    /\ call = None
    /\ i < get_save_ram_mut(region).len
    /\ call' = [op |-> "get_save_ram_mut", region |-> region, index |-> i, byte |-> byte,
                before |-> memory]
    /\ memory' = [memory EXCEPT ![get_save_ram_mut(region).ptr + i] = byte]
    /\ ret' = get_save_ram_mut(region)
    /\ UNCHANGED <<host_kind, host, taken, rx, run_fn, pc, pending, got, result_dropped,
                   active, arrived, execs, load_vars, front_vars>>

\* the caller has its result: the history is ready for the next call
MemReturn ==
    /\ call # None
    /\ call' = None
    /\ ret' = None
    /\ UNCHANGED <<chan_vars, load_vars, front_vars>>

MemNext ==
    \/ \E addr \in MemAddrs : FindDescriptor(addr)
    \/ \E addr \in MemAddrs, max_len \in MemLens : GetSlice(addr, max_len)
    \/ \E domain \in {"ROM", "System Bus", "SRAM"}, address \in MemAddrs, size \in MemLens :
            ReadRequest(domain, address, size)
    \/ \E address \in MemAddrs, bytes \in MemBytes : WriteMemory(address, bytes)
    \/ \E requests \in MemBatches : HandleRequests(requests)
    \/ \E region \in SaveRamRegions, data \in MemBytes : RestoreSaveRam(region, data)
    \/ \E region \in SaveRamRegions, i \in MemLens, byte \in Byte :
            SaveRamMutStore(region, i, byte)
    \/ MemReturn

MemSpec == MemInit /\ [][MemNext]_vars

----------------------------------------------------------------------------
(* The specification of the JSON/TCP interface: the listener binds a port, *)
(* a client connects and sends lines                                        *)

\* the most requests in one JSON line
MaxBatch == 3

\* the candidate ports, any of which another process may hold
Ports == FIRST_PORT..(FIRST_PORT + NUM_PORTS - 1)

Guard(address, expected_data) ==
    [type |-> "GUARD", address |-> address, expected_data |-> expected_data,
     domain |-> "System Bus"]
Write(address, value) == [type |-> "WRITE", address |-> address, value |-> value]

\* the requests a client puts into its JSON lines, in any order
TcpRequests ==
    {Guard(0, <<0>>), Guard(0, <<1>>), Write(0, <<1>>), [type |-> "LOCK"],
     [type |-> "UNLOCK"], [type |-> "DISPLAY_MESSAGE"]}

\* the lines a client sends. Lines of requests: every batch of TcpRequests,
\* and PING, PREFERRED_CORES and SET_MESSAGE_INTERVAL in a line of their own.
\* Lines that are no JSON array of requests: the token VERSION in some
\* spellings, and text that is neither
Lines ==
    {[kind |-> "json", requests |-> requests] :
        requests \in UNION {[1..n -> TcpRequests] : n \in 0..MaxBatch}}
    \cup {[kind |-> "json", requests |-> <<request>>] : request \in
            {[type |-> "PING"], [type |-> "PREFERRED_CORES"],
             [type |-> "SET_MESSAGE_INTERVAL"]}}
    \cup {[kind |-> "text", chars |-> chars] :
        chars \in {<<"V", "E", "R", "S", "I", "O", "N", "\n">>,
                   <<"v", "e", "r", "s", "i", "o", "n", "\n">>,
                   <<" ", "V", "e", "r", "s", "i", "o", "n", " ", "\n">>,
                   <<"V", "E", "R", "S", "I", "O", "N", "\r", "\n">>,
                   <<"\t", "v", "e", "r", "s", "i", "o", "n", "U+00A0", "\n">>,
                   <<"V", "E", "R", "S", "I", "O", "N", "S", "\n">>,
                   <<"V", "E", "R", "\n">>,
                   <<"{", "\n">>,
                   <<"\n">>}}

TcpInit ==
    /\ host_kind = "handle"
    /\ host = "loop"
    /\ taken = 0
    /\ rx = << >>
    /\ run_fn = None
    /\ pc = [t \in Clients |-> "idle"]
    /\ pending = [t \in Clients |-> None]
    /\ got = [t \in Clients |-> None]
    /\ result_dropped = {}
    /\ memory = [p \in Phys |-> 0]
    /\ active = {}
    /\ arrived = << >>
    /\ execs = [t \in Clients |-> 0]
    /\ CALLBACKS = Handler({ARGB8888, RGB565})
    /\ state = LoadedState
    /\ lpc = "body"
    /\ config = [api_version |-> EXPECTED_LIB_RETRO_VERSION, supported |-> {ARGB8888, RGB565}]
    /\ api_log = LoadCalls \o <<"f">>
    /\ outer = << >>
    /\ load_result = "none"
    /\ env_ret = FALSE
    /\ call = None
    /\ ret = None
    /\ \E occupied \in SUBSET Ports : listener = [status |-> "not_started", occupied |-> occupied]
    /\ conn = NoConnection
    /\ udp = UdpNotStarted
    /\ gui = GuiStarted
    /\ overflow_checks = FALSE

\* try_start: bind_socket().context("failed to create socket")?
BindSocket ==
    /\ listener.status = "not_started"
    /\ call = None
    /\ call' = [op |-> "bind_socket", occupied |-> listener.occupied]
    /\ ret' = bind_socket(listener.occupied)
    /\ listener' = [status |-> IF ret'.ok THEN "listening" ELSE "failed",
                    occupied |-> {}]
    /\ UNCHANGED <<conn, udp, chan_vars, load_vars, gui, overflow_checks>>

\* socket.accept() and the thread of handle_client: a connection starts
Accept ==
    /\ listener.status = "listening"
    /\ conn.status \in {"none", "closed", "failed"}
    /\ call = None
    /\ conn' = [NoConnection EXCEPT !.status = "open"]
    /\ UNCHANGED <<listener, udp, chan_vars, load_vars, obs_vars, gui, overflow_checks>>

\* the client sends one of lines: receive_requests, and with the requests
\* parsed the connection thread enters Handle::run with the closure that
\* calls handle_requests
LineReceived(lines) ==
    /\ conn.status = "open"
    /\ call = None
    /\ pc[TcpThread] = "idle"
    /\ \E line \in lines :
       /\ call' = [op |-> "line", line |-> line, conn |-> conn, before |-> memory,
                   after |-> memory]
       /\ LET parsed == parse_requests(line)
          IN  IF ~parsed.ok
              THEN /\ conn' = [NoConnection EXCEPT !.status = "failed"]
                   /\ ret' = [parsed |-> FALSE, ran |-> FALSE, responses |-> << >>,
                              sent |-> << >>, write_failed |-> FALSE]
                   /\ UNCHANGED <<pc, pending, got, execs>>
              ELSE /\ pc' = [pc EXCEPT ![TcpThread] = "sending"]
                   /\ pending' = [pending EXCEPT ![TcpThread] =
                                       [src |-> "tcp", op |-> "handle_requests",
                                        requests |-> parsed.requests]]
                   /\ got' = [got EXCEPT ![TcpThread] = None]
                   /\ execs' = [execs EXCEPT ![TcpThread] = 0]
                   /\ UNCHANGED <<conn, ret>>
    /\ UNCHANGED <<host_kind, host, taken, rx, run_fn, result_dropped, memory, active,
                   arrived, load_vars, listener, udp, gui, overflow_checks>>

\* Handle::run has returned the responses: send_responses, and the loop of
\* try_handle_client goes on to the next line. prev_guard is the failed_guard
\* handle_requests held when it returned, locked the memory this line left
\* if the client has asked for the lock and not given it back. The write to the stream fails when
\* the client has closed the connection: "failed to send responses" ends
\* try_handle_client after the requests have run
LineReply ==
    /\ pc[TcpThread] = "returned"
    /\ \E write_ok \in BOOLEAN :
       LET responses == got[TcpThread].val
           sent == send_responses(responses)
           requests == pending[TcpThread].requests
           locks == {i \in DOMAIN requests : requests[i].type \in {"LOCK", "UNLOCK"}}
           last == CHOOSE i \in locks : \A j \in locks : j <= i
       IN  /\ conn' = IF sent.ok /\ write_ok
                      THEN [status |-> "open",
                            prev_guard |->
                                handle_requests(requests, state, call.before).failed_guard,
                            locked |->
                                IF locks = {} /\ conn.locked = << >> THEN << >>
                                ELSE IF locks # {} /\ requests[last].type = "UNLOCK"
                                THEN << >>
                                ELSE <<call.after>>]
                      ELSE [NoConnection EXCEPT !.status = "failed"]
           /\ ret' = [parsed |-> TRUE, ran |-> TRUE, responses |-> responses,
                      sent |-> IF sent.ok /\ write_ok THEN <<sent>> ELSE << >>,
                      write_failed |-> sent.ok /\ ~write_ok]
    /\ pc' = [pc EXCEPT ![TcpThread] = "idle"]
    /\ pending' = [pending EXCEPT ![TcpThread] = None]
    /\ got' = [got EXCEPT ![TcpThread] = None]
    /\ UNCHANGED <<host_kind, host, taken, rx, run_fn, result_dropped, memory, active,
                   arrived, execs, load_vars, call, listener, udp, gui, overflow_checks>>

\* Handle::run has returned Err, the Host is gone: "failed to run in core"
\* ends try_handle_client and nothing is sent
LineRunFailed ==
    /\ pc[TcpThread] = "closed"
    /\ conn' = [NoConnection EXCEPT !.status = "failed"]
    /\ ret' = [parsed |-> TRUE, ran |-> FALSE, responses |-> << >>, sent |-> << >>,
               write_failed |-> FALSE]
    /\ pc' = [pc EXCEPT ![TcpThread] = "idle"]
    /\ pending' = [pending EXCEPT ![TcpThread] = None]
    /\ got' = [got EXCEPT ![TcpThread] = None]
    /\ UNCHANGED <<host_kind, host, taken, rx, run_fn, result_dropped, memory, active,
                   arrived, execs, load_vars, call, listener, udp, gui, overflow_checks>>

\* no line for 60 seconds: read_line returns the error of the read timeout
\* and "failed to receive requests" ends try_handle_client
ReadTimeout ==
    /\ conn.status = "open"
    /\ call = None
    /\ pc[TcpThread] = "idle"
    /\ conn' = [NoConnection EXCEPT !.status = "failed"]
    /\ UNCHANGED <<listener, udp, chan_vars, load_vars, obs_vars, gui, overflow_checks>>

\* read_line returns 0: the client has disconnected
ClientDisconnect ==
    /\ conn.status = "open"
    /\ call = None
    /\ pc[TcpThread] = "idle"
    /\ conn' = [NoConnection EXCEPT !.status = "closed"]
    /\ UNCHANGED <<listener, udp, chan_vars, load_vars, obs_vars, gui, overflow_checks>>

\* the line has been dealt with: the history is ready for the next one
TcpReturn ==
    /\ call # None
    /\ ret # None
    /\ call' = None
    /\ ret' = None
    /\ UNCHANGED <<listener, conn, udp, chan_vars, load_vars, gui, overflow_checks>>

\* the owning thread with the Host of core/handle.rs, and the steps of a
\* network thread inside Handle::run
HandleNext ==
    \/ HostRun
    \/ \E t \in Clients : HostRecv(t)
    \/ HostExec
    \/ \E u \in Clients : HostSendResult(u)
    \/ OwnerStepBegin
    \/ OwnerStepEnd
    \/ OwnerExit
    \/ \E t \in Clients : SendClosed(t)
    \/ \E t \in Clients : Recv(t)

TcpNext ==
    \/ BindSocket
    \/ Accept
    \/ LineReceived(Lines)
    \/ LineReply
    \/ LineRunFailed
    \/ ReadTimeout
    \/ ClientDisconnect
    \/ TcpReturn
    \/ HandleNext

TcpSpec == TcpInit /\ [][TcpNext]_vars

----------------------------------------------------------------------------
(* The specification of the UDP interface: the listener binds its port and *)
(* serves the datagrams it receives                                        *)

\* the digits of n in base 10
RECURSIVE Decimal(_)
Decimal(n) ==
    LET digit(d) == <<"0", "1", "2", "3", "4", "5", "6", "7", "8", "9">>[d + 1]
    IN  IF n < 10 THEN <<digit(n)>> ELSE Append(Decimal(n \div 10), digit(n % 10))

Datagram(command, args) == [utf8 |-> TRUE, command |-> <<command>>, args |-> args]

\* the requests of the protocol with arguments of the right number and form
WellFormedDatagrams ==
    {Datagram("VERSION", << >>), Datagram("GET_STATUS", << >>)}
    \cup {Datagram("READ_CORE_MEMORY", <<address, len>>) :
            address \in {<<"0", "x", "0">>, <<"1">>, <<"+", "1">>, <<"f">>},
            len \in {<<"0">>, <<"2">>, <<"+", "2">>, Decimal((USIZE_MAX + 1) \div 8),
                     Decimal((USIZE_MAX + 1) \div 4), Decimal(USIZE_MAX)}}
    \cup {Datagram("WRITE_CORE_MEMORY", <<address>> \o bytes) :
            address \in {<<"0", "x", "0">>, <<"1">>, <<"f">>},
            bytes \in {<< >>, << <<"0", "1">> >>, << <<"+", "1">> >>,
                       << <<"0", "x", "1">>, <<"0">> >>}}

\* bytes that are no text, no command, an unknown command, arguments that
\* are missing or are no numbers
MalformedDatagrams ==
    {[utf8 |-> FALSE, command |-> << >>, args |-> << >>],
     [utf8 |-> TRUE, command |-> << >>, args |-> << >>],
     Datagram("PING", << >>),
     Datagram("READ_CORE_MEMORY", << >>),
     Datagram("READ_CORE_MEMORY", << <<"0">> >>),
     Datagram("READ_CORE_MEMORY", << <<"0", "x", "g">>, <<"1">> >>),
     Datagram("READ_CORE_MEMORY", << <<"0">>, <<"x">> >>),
     Datagram("READ_CORE_MEMORY", << <<"+">>, <<"1">> >>),
     Datagram("READ_CORE_MEMORY", << <<"0">>, <<"-", "1">> >>),
     Datagram("READ_CORE_MEMORY", << <<"+", "+", "1">>, <<"1">> >>),
     Datagram("WRITE_CORE_MEMORY", << >>),
     Datagram("WRITE_CORE_MEMORY", << <<"g">>, <<"0", "1">> >>),
     Datagram("WRITE_CORE_MEMORY", << <<"0">>, <<"1", "0", "0">> >>),
     Datagram("WRITE_CORE_MEMORY", << <<"0">>, <<"0", "1">>, <<"g">> >>)}

UdpDatagrams == WellFormedDatagrams \cup MalformedDatagrams

\* the addresses datagrams come from: their source ports, 0 among them
UdpSenders == {0, 1}

\* the memory maps of the plugin behind the interface: the one of the other
\* interfaces, and one with a region that ends with the address space
UdpMemoryMaps ==
    {LoadedMap,
     LoadedMap \o << [start |-> 15, len |-> USIZE_MAX - 14, select |-> 0, offset |-> 0,
                      ptr |-> 0] >>}

UdpInit ==
    /\ host_kind = "handle"
    /\ host = "loop"
    /\ taken = 0
    /\ rx = << >>
    /\ run_fn = None
    /\ pc = [t \in Clients |-> "idle"]
    /\ pending = [t \in Clients |-> None]
    /\ got = [t \in Clients |-> None]
    /\ result_dropped = {}
    /\ memory = [p \in Phys |-> 0]
    /\ active = {}
    /\ arrived = << >>
    /\ execs = [t \in Clients |-> 0]
    /\ CALLBACKS = Handler({ARGB8888, RGB565})
    /\ \E map \in UdpMemoryMaps : state = [LoadedState EXCEPT !.memory_map = map]
    /\ lpc = "body"
    /\ config = [api_version |-> EXPECTED_LIB_RETRO_VERSION, supported |-> {ARGB8888, RGB565}]
    /\ api_log = LoadCalls \o <<"f">>
    /\ outer = << >>
    /\ load_result = "none"
    /\ env_ret = FALSE
    /\ call = None
    /\ ret = None
    /\ listener = NotStarted
    /\ conn = NoConnection
    /\ udp = UdpNotStarted
    /\ gui = GuiStarted
    /\ overflow_checks \in BOOLEAN

\* try_start: UdpSocket::bind((LOCALHOST, 55355)).context(..)?
UdpBind(port_free) ==
    /\ udp.status = "not_started"
    /\ udp' = [udp EXCEPT !.status = IF port_free THEN "listening" ELSE "failed"]
    /\ UNCHANGED <<tcp_vars, chan_vars, load_vars, obs_vars, gui, overflow_checks>>

\* the ret of a datagram: how handle_message ended and the replies sent
UdpOutcome(outcome, messages, sender) ==
    [outcome |-> outcome,
     replies |-> [i \in DOMAIN messages |-> [to |-> sender, message |-> messages[i]]]]

\* a turn of the loop of try_start: recv_from gets one of datagrams from one
\* of senders, and
\* handle_message runs up to its end or to the call of Handle::run. An error
\* of handle_message is logged; a panic ends the thread of the listener, and
\* a failed allocation ends the process with all of its threads
UdpReceive(datagrams, senders) ==
    /\ udp.status = "listening"
    /\ udp.call = None
    /\ pc[UdpThread] = "idle"
    /\ \E datagram \in datagrams, sender \in senders :
       LET out == handle_message(sender, datagram)
           observed == [op |-> "datagram", datagram |-> datagram, sender |-> sender,
                        before |-> memory, after |-> memory]
       IN  IF out.outcome = "run"
           THEN /\ udp' = [udp EXCEPT !.call = observed]
                /\ pc' = [pc EXCEPT ![UdpThread] = "sending"]
                /\ pending' = [pending EXCEPT ![UdpThread] = out.f]
                /\ got' = [got EXCEPT ![UdpThread] = None]
                /\ execs' = [execs EXCEPT ![UdpThread] = 0]
                /\ UNCHANGED <<host, tcp_vars, gui>>
           ELSE IF out.outcome = "abort"
           THEN /\ udp' = [status |-> "aborted", call |-> observed,
                           ret |-> UdpOutcome(out.outcome, out.reply, sender)]
                /\ host' = "aborted"
                /\ pc' = [t \in Clients |-> "aborted"]
                /\ listener' = [listener EXCEPT !.status = "aborted"]
                /\ conn' = [conn EXCEPT !.status = "aborted"]
                /\ gui' = [gui EXCEPT !.status = "aborted"]
                /\ UNCHANGED <<pending, got, execs>>
           ELSE /\ udp' = [status |-> IF out.outcome = "panic" THEN "panicked"
                                      ELSE "listening",
                           call |-> observed,
                           ret |-> UdpOutcome(out.outcome, out.reply, sender)]
                /\ UNCHANGED <<host, pc, pending, got, execs, tcp_vars, gui>>
    /\ UNCHANGED <<host_kind, taken, rx, run_fn, result_dropped, memory, active,
                   arrived, load_vars, obs_vars, overflow_checks>>

\* recv_from returns an error: "remote: failed to recv message" ends
\* try_start, and the listener with it
UdpRecvFailed ==
    /\ udp.status = "listening"
    /\ udp.call = None
    /\ pc[UdpThread] = "idle"
    /\ udp' = [udp EXCEPT !.status = "failed"]
    /\ UNCHANGED <<tcp_vars, chan_vars, load_vars, obs_vars, gui, overflow_checks>>

\* Handle::run has returned the result of the closure: the command replies
\* to the address the datagram came from, and returns the error of send_to
\* when that fails
UdpReply ==
    /\ pc[UdpThread] = "returned"
    /\ LET out == reply(udp.call.sender,
                        reply_message(udp.call.datagram, got[UdpThread].val))
       IN  udp' = [udp EXCEPT !.ret = UdpOutcome(out.outcome, out.reply, udp.call.sender)]
    /\ pc' = [pc EXCEPT ![UdpThread] = "idle"]
    /\ pending' = [pending EXCEPT ![UdpThread] = None]
    /\ got' = [got EXCEPT ![UdpThread] = None]
    /\ UNCHANGED <<host_kind, host, taken, rx, run_fn, result_dropped, memory, active,
                   arrived, execs, load_vars, obs_vars, tcp_vars, gui,
                   overflow_checks>>

\* Handle::run has returned Err, the Host is gone: the ? of the command
\* returns it, no reply is sent and the error is logged
UdpRunFailed ==
    /\ pc[UdpThread] = "closed"
    /\ udp' = [udp EXCEPT !.ret = UdpOutcome("err", << >>, udp.call.sender)]
    /\ pc' = [pc EXCEPT ![UdpThread] = "idle"]
    /\ pending' = [pending EXCEPT ![UdpThread] = None]
    /\ got' = [got EXCEPT ![UdpThread] = None]
    /\ UNCHANGED <<host_kind, host, taken, rx, run_fn, result_dropped, memory, active,
                   arrived, execs, load_vars, obs_vars, tcp_vars, gui,
                   overflow_checks>>

\* the closure panicked on the owning thread and was dropped with the sender
\* of its result: result_rx.recv() fails and expect("BUG: core run fn result
\* receiver closed") panics in Handle::run, which ends the thread of the
\* listener without a reply
UdpRunPanicked ==
    /\ pc[UdpThread] = "waiting"
    /\ ResultChannel(UdpThread) \in result_dropped
    /\ udp' = [udp EXCEPT !.status = "panicked",
                          !.ret = UdpOutcome("panic", << >>, udp.call.sender)]
    /\ pc' = [pc EXCEPT ![UdpThread] = "panicked"]
    /\ UNCHANGED <<host_kind, host, taken, rx, run_fn, pending, got, result_dropped,
                   memory, active, arrived, execs, load_vars, obs_vars,
                   tcp_vars, gui, overflow_checks>>

\* the datagram has been dealt with: the history is ready for the next one
UdpReturn ==
    /\ udp.status = "listening"
    /\ udp.call # None
    /\ udp.ret # None
    /\ udp' = [udp EXCEPT !.call = None, !.ret = None]
    /\ UNCHANGED <<tcp_vars, chan_vars, load_vars, obs_vars, gui, overflow_checks>>

UdpNext ==
    \/ \E port_free \in BOOLEAN : UdpBind(port_free)
    \/ UdpReceive(UdpDatagrams, UdpSenders)
    \/ UdpRecvFailed
    \/ UdpReply
    \/ UdpRunFailed
    \/ UdpRunPanicked
    \/ UdpReturn
    \/ HandleNext

UdpSpec == UdpInit /\ [][UdpNext]_vars

----------------------------------------------------------------------------
(* The specification of both network interfaces with the requests that     *)
(* read and write memory, inside and outside of what is mapped             *)

Read(domain, address, size) ==
    [type |-> "READ", domain |-> domain, address |-> address, size |-> size]

\* reads and writes inside the mapped range, across its end and outside it,
\* which a client puts into its JSON lines in any order
RwRequests ==
    {Write(0, <<1>>), Read("System Bus", 0, 2), Read("System Bus", 5, 1)}

\* the requests that only report
ReportRequests ==
    {[type |-> "PING"], [type |-> "SYSTEM"], [type |-> "HASH"],
     Guard(0, <<0>>), Guard(1, <<1, 1>>),
     [type |-> "GUARD", address |-> 1, expected_data |-> <<0>>, domain |-> "ROM"],
     Read("ROM", 5, 1)}

RemoteLines ==
    {[kind |-> "json", requests |-> requests] :
        requests \in UNION {[1..n -> RwRequests] : n \in 0..(MaxBatch - 1)}}
    \cup {[kind |-> "json", requests |-> <<head, request>>] :
                head \in {Write(1, <<1, 1>>), Write(5, <<1>>), Read("ROM", 1, 2),
                          Read("System Bus", 1, 2)},
                request \in RwRequests}
    \cup {[kind |-> "json", requests |-> <<request>>] : request \in ReportRequests}
    \cup {[kind |-> "text", chars |-> <<"V", "E", "R", "S", "I", "O", "N", "\n">>]}

\* the datagrams that read and write memory, and those that only report
RemoteDatagrams ==
    {Datagram("VERSION", << >>), Datagram("GET_STATUS", << >>),
     Datagram("READ_CORE_MEMORY", << <<"+", "1">>, <<"+", "2">> >>),
     Datagram("WRITE_CORE_MEMORY", << <<"0", "x", "0">>, <<"0">>, <<"+", "1">> >>)}

\* both listeners have bound their sockets and a client has connected
RemoteInit ==
    /\ host_kind = "handle"
    /\ host = "loop"
    /\ taken = 0
    /\ rx = << >>
    /\ run_fn = None
    /\ pc = [t \in Clients |-> "idle"]
    /\ pending = [t \in Clients |-> None]
    /\ got = [t \in Clients |-> None]
    /\ result_dropped = {}
    /\ memory = [p \in Phys |-> 0]
    /\ active = {}
    /\ arrived = << >>
    /\ execs = [t \in Clients |-> 0]
    /\ CALLBACKS = Handler({ARGB8888, RGB565})
    /\ state = LoadedState
    /\ lpc = "body"
    /\ config = [api_version |-> EXPECTED_LIB_RETRO_VERSION, supported |-> {ARGB8888, RGB565}]
    /\ api_log = LoadCalls \o <<"f">>
    /\ outer = << >>
    /\ load_result = "none"
    /\ env_ret = FALSE
    /\ call = None
    /\ ret = None
    /\ listener = [status |-> "listening", occupied |-> {}]
    /\ conn = [NoConnection EXCEPT !.status = "open"]
    /\ udp = [UdpNotStarted EXCEPT !.status = "listening"]
    /\ gui = GuiStarted
    /\ overflow_checks = FALSE

RemoteNext ==
    \/ Accept
    \/ LineReceived(RemoteLines)
    \/ LineReply
    \/ LineRunFailed
    \/ ReadTimeout
    \/ ClientDisconnect
    \/ TcpReturn
    \/ UdpReceive(RemoteDatagrams, {1})
    \/ UdpRecvFailed
    \/ UdpReply
    \/ UdpRunFailed
    \/ UdpReturn
    \/ HandleNext

RemoteSpec == RemoteInit /\ [][RemoteNext]_vars

----------------------------------------------------------------------------
(* The channel with an owning thread that never leaves its loop, and the   *)
(* fairness of running threads: the owning thread and every thread inside  *)
(* Handle::run keep running; a sender blocked on the capacity 0 channel is *)
(* served when the Host keeps coming back to recv (the channel wakes its   *)
(* senders in the order they blocked)                                      *)

FairNext ==
    \/ \E t \in Clients : ClientNext(t)
    \/ HostNext

Fairness ==
    /\ WF_vars(HostRun)
    /\ WF_vars(HostTryRecv)
    /\ WF_vars(HostExec)
    /\ WF_vars(HostTrySendFull)
    /\ WF_vars(OwnerStepBegin)
    /\ WF_vars(OwnerStepEnd)
    /\ \A t \in Clients :
        /\ SF_vars(HostRecv(t))
        /\ WF_vars(HostSendResult(t))
        /\ WF_vars(HostTrySend(t))
        /\ WF_vars(SendBuffered(t))
        /\ WF_vars(SendClosed(t))
        /\ WF_vars(Recv(t))
        /\ WF_vars(RecvDisconnected(t))
        /\ WF_vars(Return(t))

FairSpec == Init /\ [][FairNext]_vars /\ Fairness

----------------------------------------------------------------------------
(* The claims *)

InHandleRun(t) == pc[t] \in {"sending", "sent", "waiting"}
NothingPending == rx = << >> /\ \A t \in Clients : pc[t] # "sending"

\* C1: command execution against the runtime is mutually exclusive: at most
\* one closure submitted through a Handle is executing, and none executes
\* while a run() step of the owning thread is in progress
C1_MutualExclusion == Cardinality(active) <= 1

\* a closure is executing while another thread is inside Handle::run
C1_Witness ==
    /\ host = "exec"
    /\ active = {run_fn.owner}
    /\ \E u \in Clients : u # run_fn.owner /\ InHandleRun(u)

\* C2 as stated: every submitted command is eventually executed, exactly
\* once, one after the other, in the order of arrival at the Host
C2_EveryCommandRunsInOrder ==
    /\ \A t \in Clients : (pc[t] = "sending") ~> (execs[t] = 1)
    /\ [](\A t \in Clients : execs[t] <= 1)
    /\ [][host = "exec" /\ host' = "result" => Head(arrived) = run_fn.owner]_vars

\* C3: Handle::run returns only after the caller's own closure has run, with
\* the result of that closure; no thread receives another thread's result
C3_OwnResult ==
    \A t \in Clients : pc[t] = "returned" => got[t].by = t /\ execs[t] = 1

\* a thread has its result while another thread's command is still in flight
C3_Witness ==
    \E t, u \in Clients :
        /\ t # u
        /\ pc[t] = "returned"
        /\ pc[u] \in {"sent", "waiting"}

\* C4 as stated: the channel has capacity zero, so no accepted command waits
\* in a queue, and a thread whose command has not been taken is still
\* blocked in its send
C4_NoQueuedCommand ==
    /\ Len(rx) = 0
    /\ \A t \in Clients :
        pc[t] \in {"sent", "waiting"} /\ execs[t] = 0 =>
            run_fn # None /\ run_fn.owner = t

\* C5 as stated: once the Host has been dropped, no Handle::run panics, and
\* none stays inside Handle::run with a command that will never be executed
C5_ClosedNotPanic ==
    host = "dropped" =>
        \A t \in Clients :
            /\ pc[t] # "panicked"
            /\ pc[t] \in {"sent", "waiting"} => ResultChannel(t) \notin result_dropped

\* C6 as stated: a Host::run made when no command is pending does not wait for
\* a submission: the owning thread can always take its next step
C6_HostRunNeverWaits ==
    host \in {"loop", "recv", "drain", "step", "in_run"} /\ NothingPending => ENABLED HostNext

\* C7: the runtime is used only by the owning thread. Every step that
\* changes the plugin's memory or RuntimeState is a step of the owning thread,
\* the closure Host::run executes or the run() step of its loop, in which no
\* requesting thread moves; and what a requesting thread has of the runtime
\* is the result its closure produced on the owning thread, handed over
\* through the result channel
C7_OnlyOwnerAccesses ==
    [][/\ (memory' # memory \/ state' # state) =>
            /\ pc' = pc /\ pending' = pending /\ got' = got
            /\ \/ host = "exec" /\ run_fn # None /\ host' \in {"result", "panicked"}
               \/ host = "in_run" /\ host' = "loop"
       /\ \A t \in Clients :
            (got'[t] # got[t] /\ got'[t] \notin {None, [err |-> "channel closed"]}) =>
                /\ host = "result"
                /\ run_fn.owner = t
                /\ got'[t] = run_fn.result[1]]_vars

\* a network thread has the count of the bytes its write has put into the
\* plugin's memory, and the GUI thread has the result of a closure of its own
C7_Witness ==
    /\ pc[GuiThread] = "returned"
    /\ got[GuiThread].by = GuiThread
    /\ \E t \in Clients \ {GuiThread} :
        /\ pc[t] = "returned"
        /\ pending[t].op = "write_memory"
        /\ got[t] = [by |-> t, val |-> 1]

\* C8: when the plugin reports another ABI version than the expected one,
\* load returns an error having called nothing but retro_api_version: the
\* handler is not registered, init, deinit, load-game and the body do not run
C8_VersionMismatch ==
    config.api_version # EXPECTED_LIB_RETRO_VERSION =>
        /\ api_log \in {<< >>, <<"retro_api_version">>}
        /\ lpc = "returned" => load_result \in {"err_version", "err_symbol"}
        /\ load_result \notin {"ok", "err_load_game", "panic"}

\* a load of a plugin with the wrong version has returned its error
C8_Witness ==
    /\ lpc = "returned"
    /\ load_result = "err_version"
    /\ config.api_version # EXPECTED_LIB_RETRO_VERSION

Count(log, what) == Cardinality({i \in 1..Len(log) : log[i] = what})

\* C9: when the game load fails, load calls retro_deinit exactly once, after
\* retro_init and as the last thing before it returns the error; it never
\* calls the body and never calls retro_unload_game
C9_LoadGameFailure ==
    /\ lpc = "load_game_failed" => load_result = "none" /\ Count(api_log, "retro_deinit") = 0
    /\ lpc = "returned" /\ load_result = "err_load_game" =>
        /\ Count(api_log, "retro_deinit") = 1
        /\ Count(api_log, "retro_init") = 1
        /\ api_log[Len(api_log)] = "retro_deinit"
        /\ api_log[Len(api_log) - 1] \in {"retro_init", "retro_load_game"}
        /\ Count(api_log, "f") = 0
        /\ Count(api_log, "retro_unload_game") = 0

\* the plugin has rejected the content and load has returned the error
C9_Witness ==
    /\ lpc = "returned"
    /\ load_result = "err_load_game"
    /\ Count(api_log, "retro_load_game") = 1

\* C10 as stated: after a load that failed at the game load, the callback
\* slot holds the stub and RuntimeState equals its fresh default
C10_ResetAfterFailedLoad ==
    lpc = "returned" /\ load_result = "err_load_game" =>
        CALLBACKS = Stub /\ state = State_new

\* the last call the history holds is a call of op
Observed(op) == call # None /\ call.op = op

IsPrefix(s, t) == Len(s) <= Len(t) /\ \A i \in 1..Len(s) : s[i] = t[i]

\* C11 as stated: when the body panics, retro_unload_game and retro_deinit
\* have still been called, and the callback slot and RuntimeState have been
\* reset, when the panic reaches the caller of load
C11_CleanupOnPanic ==
    lpc = "returned" /\ load_result = "panic" =>
        /\ Count(api_log, "retro_unload_game") = 1
        /\ Count(api_log, "retro_deinit") = 1
        /\ CALLBACKS = Stub
        /\ state = State_new

\* C12 as stated: a second load made on the owning thread while the body of
\* the first runs fails with the one-core-per-thread error, having invoked no
\* plugin entry point
C12_OneCorePerThread ==
    outer # << >> =>
        /\ lpc = "returned"
        /\ load_result = "err_core_loaded"
        /\ api_log = << >>

\* C13: what a load calls is, in this order, the ABI version check, the
\* handler registration with the six retro_set_* calls, retro_init,
\* retro_load_game, then the body only after a successful game load, then
\* retro_unload_game before retro_deinit, both before load returns; a failed
\* game load ends with retro_deinit. The loads the body makes are its own.
C13_LoadOrder ==
    LET Registered == <<"retro_api_version", "register_callbacks", "retro_set_environment",
                        "retro_set_video_refresh", "retro_set_audio_sample",
                        "retro_set_audio_sample_batch", "retro_set_input_poll",
                        "retro_set_input_state", "retro_init">>
        Full == Registered \o <<"retro_load_game", "f", "retro_unload_game", "retro_deinit",
                                "callbacks_drop", "state_reset">>
        Failed == {Registered \o <<"retro_deinit">>,
                   Registered \o <<"retro_load_game", "retro_deinit">>}
        log == SelectSeq(api_log, LAMBDA c : c # "load")
    IN  /\ IsPrefix(log, Full) \/ log \in Failed
        /\ \A i \in DOMAIN api_log : api_log[i] = "load" =>
                i > 1 /\ api_log[i - 1] \in {"f", "load"}
        /\ Count(api_log, "f") = 1 => load_result \in {"none", "ok", "panic"}
        /\ lpc = "returned" /\ load_result = "ok" => log = Full
        /\ lpc = "returned" /\ load_result = "err_load_game" => log \in Failed

\* a load has run its body and returned, having unloaded the game
C13_Witness ==
    /\ lpc = "returned"
    /\ load_result = "ok"
    /\ Count(api_log, "retro_unload_game") = 1

\* C14: after a load has returned successfully, and until the next load
\* starts, RuntimeState equals State::new() and the callback slot holds the
\* stub: the pixel format negotiated during the load is gone
C14_FreshAfterLoad ==
    lpc \in {"returned", "idle"} /\ load_result = "ok" =>
        /\ state = State_new
        /\ state.pixel_format = ARGB1555
        /\ state.memory_map = << >>
        /\ ~state.is_core_loaded
        /\ CALLBACKS = Stub

\* a load has returned successfully after the plugin had ARGB8888 accepted
C14_Witness ==
    /\ lpc = "returned"
    /\ load_result = "ok"
    /\ Observed("environment")
    /\ call.command = "SET_PIXEL_FORMAT"
    /\ call.data = ARGB8888
    /\ env_ret = TRUE

\* the descriptors of the table, by position, that a translation of addr may
\* use: select mask zero and addr in [start, start + len)
Resolving(map, addr) ==
    {i \in 1..Len(map) :
        map[i].select = 0 /\ map[i].start <= addr /\ addr < map[i].start + map[i].len}

FirstOf(hits) == CHOOSE i \in hits : \A j \in hits : i <= j

\* C15: for every descriptor D of the table and every address a
\* in D's range, D.select = 0, translate(a, n) returns a pointer D.offset +
\* (a - D.start) past D's base pointer and the length min(D.len - (a - D.start), n)
C15_TranslateEveryDescriptor ==
    Observed("get_slice") =>
        \A i \in Resolving(state.memory_map, call.addr) :
            LET D == state.memory_map[i]
            IN  /\ ret # Panic
                /\ ret # None
                /\ ret.ptr - D.ptr = D.offset + (call.addr - D.start)
                /\ ret.len = Min(D.len - (call.addr - D.start), call.max_len)

\* C16: when several descriptors contain an address, it resolves through the
\* first one in registration order whose select mask is zero and whose range
\* contains it: earlier ones with a non-zero mask are skipped, later matching
\* ones are not used
C16_FirstMatchWins ==
    Observed("find_descriptor") =>
        LET hits == Resolving(state.memory_map, call.addr)
        IN  /\ hits # {} => ret = state.memory_map[FirstOf(hits)]
            /\ ret # None =>
                \E i \in hits :
                    /\ ret = state.memory_map[i]
                    /\ \A j \in 1..(i - 1) :
                        \/ state.memory_map[j].select # 0
                        \/ call.addr < state.memory_map[j].start
                        \/ call.addr >= state.memory_map[j].start + state.memory_map[j].len

\* C17: translate returns no match exactly when no descriptor with select
\* mask zero contains the address
C17_NoMatchIffUnmapped ==
    Observed("get_slice") =>
        (ret = None <=> Resolving(state.memory_map, call.addr) = {})

\* C18: a read of length L at an address where k bytes remain in range
\* returns min(k, L) bytes, the current contents from the address on; a read
\* at or past the end returns no bytes; the response is never an error
C18_ReadClamped ==
    Observed("READ") /\ call.domain \in {"ROM", "System Bus"} =>
        /\ ret # Panic
        /\ ret.type = "READ_RESPONSE"
        /\ IF call.domain = "ROM"
           THEN LET k == IF call.address >= Len(state.rom) THEN 0
                         ELSE Len(state.rom) - call.address
                IN  /\ Len(ret.value) = Min(k, call.size)
                    /\ \A i \in 1..Len(ret.value) : ret.value[i] = state.rom[call.address + i]
           ELSE LET hits == Resolving(state.memory_map, call.address)
                IN  IF hits = {} THEN ret.value = << >>
                    ELSE LET D == state.memory_map[FirstOf(hits)]
                             k == D.start + D.len - call.address
                             base == D.ptr + D.offset + (call.address - D.start)
                         IN  /\ Len(ret.value) = Min(k, call.size)
                             /\ \A i \in 1..Len(ret.value) :
                                    ret.value[i] = memory[base + i - 1]

\* C19: a write of L bytes at an address where k bytes remain in range sets
\* the min(k, L) bytes from the address on to the first bytes of the input,
\* returns that number and leaves every other byte unchanged; when the
\* address resolves to no descriptor it returns 0 and changes nothing
C19_WriteClamped ==
    Observed("write_memory") =>
        LET hits == Resolving(state.memory_map, call.address)
        IN  IF ret = Panic THEN FALSE
            ELSE IF hits = {} THEN ret.len = 0 /\ memory = call.before
            ELSE LET D == state.memory_map[FirstOf(hits)]
                     k == Min(D.start + D.len - call.address, Len(call.bytes))
                     base == D.ptr + D.offset + (call.address - D.start)
                 IN  /\ ret.len = k
                     /\ \A p \in DOMAIN memory :
                            memory[p] = IF base <= p /\ p < base + k
                                        THEN call.bytes[p - base + 1]
                                        ELSE call.before[p]

\* C20: a SET_PIXEL_FORMAT for a format the handler does not support, or for
\* an unknown value, returns false and leaves the pixel format of
\* RuntimeState as it was; for a supported format it returns true and
\* RuntimeState holds the new format at once, so that every later
\* video_refresh decodes its frame with the format RuntimeState holds
C20_PixelFormatNegotiation ==
    /\ [][call' # call /\ call'.op = "environment" /\ call'.command = "SET_PIXEL_FORMAT" =>
            IF call'.data \in PixelFormats /\ ~CALLBACKS.stub
                    /\ call'.data \in CALLBACKS.supported
            THEN env_ret' = TRUE /\ state'.pixel_format = call'.data
            ELSE env_ret' = FALSE /\ state'.pixel_format = state.pixel_format]_vars
    /\ [][call' # call /\ call'.op = "video_refresh" =>
            ret'.pixel_format = state.pixel_format /\ state' = state]_vars

\* a frame has been decoded as RGB565, a format the plugin had accepted
C20_Witness ==
    /\ Observed("video_refresh")
    /\ ret.pixel_format = RGB565
    /\ state.pixel_format = RGB565
    /\ lpc = "in_run"

----------------------------------------------------------------------------
(* C21: from callbacks::register on, through the retro_set_* calls, init,  *)
(* the game load, the frames and the unload, and until the body loads a    *)
(* core itself, a bridge callback goes to the handler that the running     *)
(* load has registered; once a load has returned through callbacks::drop() *)
(* a callback goes to the stub: an input-state query returns 0, a pixel    *)
(* format request is rejected and RuntimeState does not change.            *)
C21_CallbackDispatch ==
    [][(call' # call /\ call' # None /\ call'.op \in {"input_state", "environment"}) =>
         /\ (\/ lpc \in {"in_retro_set", "in_init", "in_load_game"}
             \/ /\ lpc \in {"in_run", "in_unload_game", "in_deinit"}
                /\ \A i \in DOMAIN api_log : api_log[i] # "load") =>
                /\ call'.op = "input_state" =>
                    /\ ret'.handled_by = [stub |-> FALSE, supported |-> config.supported]
                    /\ ret'.value = 1
                /\ (call'.op = "environment" /\ call'.command = "SET_PIXEL_FORMAT"
                        /\ call'.data \in config.supported) =>
                    env_ret' = TRUE /\ state'.pixel_format = call'.data
         /\ (load_result = "ok" /\ lpc \in {"returned", "idle"}) =>
                /\ state' = state
                /\ call'.op = "input_state" =>
                        ret'.value = 0 /\ ret'.handled_by = [stub |-> TRUE]
                /\ (call'.op = "environment" /\ call'.command = "SET_PIXEL_FORMAT") =>
                        env_ret' = FALSE]_vars

\* a load has returned through drop() and an input-state query was answered
\* by the stub
C21_Witness ==
    /\ lpc = "returned"
    /\ load_result = "ok"
    /\ "callbacks_drop" \in {api_log[i] : i \in DOMAIN api_log}
    /\ ARGB8888 \in config.supported
    /\ call # None
    /\ call.op = "input_state"
    /\ ret = [value |-> 0, handled_by |-> [stub |-> TRUE]]

----------------------------------------------------------------------------
(* The JSON/TCP interface: what a handled line shows *)

\* try_handle_client is through with a line it has received
LineDone == call # None /\ call.op = "line" /\ ret # None
\* the line was parsed and the Host was gone when its requests were handed in
RunFailed == ret.parsed /\ ~ret.ran
\* a line has been received and parsed, and its requests have been handled
LineHandled == LineDone /\ ret.parsed /\ ret.ran
\* the line was a JSON array of requests
BatchHandled == LineHandled /\ call.line.kind = "json"

IsGuardResponse(r) == r.type = "GUARD_RESPONSE"
IsOtherResponse(r) == r.type # "GUARD_RESPONSE"
IsOtherRequest(r) == r.type # "GUARD"

\* the batch starts with a GUARD on the System Bus whose one expected byte
\* differs from (is equal to) the byte the buffer held before the batch
FirstGuardFails ==
    /\ BatchHandled
    /\ call.line.requests # << >>
    /\ call.line.requests[1].type = "GUARD"
    /\ call.before[call.line.requests[1].address] # call.line.requests[1].expected_data[1]
FirstGuardSucceeds ==
    /\ BatchHandled
    /\ call.line.requests # << >>
    /\ call.line.requests[1].type = "GUARD"
    /\ call.before[call.line.requests[1].address] = call.line.requests[1].expected_data[1]

(* C22: in a batch whose GUARD fails, the requests after it are            *)
(* short-circuited: the command leaves memory as it found it.              *)
C22_FailedGuardShortCircuits ==
    FirstGuardFails => call.after = call.before

(* C23: for a batch [GUARD, WRITE] whose guard fails the response array is *)
(* the failed GUARD_RESPONSE twice, and holds no WRITE_RESPONSE.           *)
C23_FailedGuardReplacesWriteResponse ==
    (/\ FirstGuardFails
     /\ Len(call.line.requests) = 2
     /\ call.line.requests[2].type = "WRITE") =>
        LET failed == [type |-> "GUARD_RESPONSE", value |-> FALSE,
                       address |-> call.line.requests[1].address]
        IN  /\ ret.responses = <<failed, failed>>
            /\ \A i \in DOMAIN ret.responses : ret.responses[i].type # "WRITE_RESPONSE"

(* C24: when the line before this one on the connection ended with a       *)
(* failed guard held, the responses of this line start with that held      *)
(* failed-guard response.                                                  *)
C24_GuardHeldAcrossLines ==
    (/\ BatchHandled
     /\ call.conn.prev_guard # << >>
     /\ ~call.conn.prev_guard[1].value
     /\ call.line.requests # << >>
     /\ \A i \in DOMAIN call.line.requests : call.line.requests[i].type # "GUARD") =>
        /\ ret.responses # << >>
        /\ ret.responses[1] = call.conn.prev_guard[1]

(* C25: after a GUARD that succeeds the response array holds no            *)
(* GUARD_RESPONSE but, at most, the one of that GUARD itself.              *)
C25_SuccessfulGuardInsertsNothing ==
    (/\ FirstGuardSucceeds
     /\ \A i \in 2..Len(call.line.requests) : call.line.requests[i].type # "GUARD") =>
        Len(SelectSeq(ret.responses, IsGuardResponse)) <= 1

(* C26: a line whose last request is LOCK leaves the connection in locked  *)
(* mode: when the line is answered its command is still executing, to      *)
(* handle the next line inside the same execution.                         *)
C26_LockEntersLockedMode ==
    (/\ call # None
     /\ call.op = "line"
     /\ call.line.kind = "json"
     /\ call.line.requests # << >>
     /\ call.line.requests[Len(call.line.requests)].type = "LOCK"
     /\ ret # None) =>
        /\ run_fn # None
        /\ run_fn.owner = TcpThread
        /\ host = "exec"

Unimplemented ==
    {"PREFERRED_CORES", "LOCK", "UNLOCK", "DISPLAY_MESSAGE", "SET_MESSAGE_INTERVAL"}

(* C27: each PREFERRED_CORES, LOCK, UNLOCK, DISPLAY_MESSAGE and            *)
(* SET_MESSAGE_INTERVAL request has exactly one ERROR response at its      *)
(* place in the response array, and a batch of such requests leaves the    *)
(* plugin's memory unchanged.                                              *)
C27_UnimplementedAnswered ==
    BatchHandled =>
        LET requests == SelectSeq(call.line.requests, IsOtherRequest)
            responses == SelectSeq(ret.responses, IsOtherResponse)
        IN  /\ Len(responses) = Len(requests)
            /\ \A i \in DOMAIN requests :
                    (requests[i].type \in Unimplemented) <=> (responses[i].type = "ERROR")
            /\ (\A i \in DOMAIN requests : requests[i].type \in Unimplemented) =>
                    call.after = call.before

\* a batch of LOCK, UNLOCK and DISPLAY_MESSAGE was answered
C27_Witness ==
    /\ BatchHandled
    /\ call.line.requests =
            <<[type |-> "LOCK"], [type |-> "UNLOCK"], [type |-> "DISPLAY_MESSAGE"]>>
    /\ \A i \in 1..3 : ret.responses[i].type = "ERROR"
    /\ Len(ret.sent) = 1

\* the line is the token VERSION in some letter case, with the white space
\* around it
VersionLine ==
    /\ call # None
    /\ call.op = "line"
    /\ call.line.kind = "text"
    /\ call.line.chars \in {<<"V", "E", "R", "S", "I", "O", "N", "\n">>,
                            <<"v", "e", "r", "s", "i", "o", "n", "\n">>,
                            <<" ", "V", "e", "r", "s", "i", "o", "n", " ", "\n">>,
                            <<"V", "E", "R", "S", "I", "O", "N", "\r", "\n">>,
                            <<"\t", "v", "e", "r", "s", "i", "o", "n", "U+00A0", "\n">>}

(* C28: a VERSION line, in any letter case, is answered with one plaintext *)
(* line that carries the version number, never with a JSON array, whatever *)
(* the connection has handled before and whatever the plugin has done      *)
(* since, as long as there is a Host to hand the request to and a client   *)
(* to take the answer.                                                     *)
C28_VersionPlaintext ==
    (VersionLine /\ ret # None /\ ~RunFailed /\ ~ret.write_failed) =>
        /\ ret.parsed
        /\ ret.sent = <<[ok |-> TRUE, format |-> "plaintext", text |-> <<1, "\n">>]>>
        /\ conn.status = "open"

\* a lower-case VERSION line was answered in plaintext on a connection whose
\* line before it ended with a failed guard held
C28_Witness ==
    /\ VersionLine
    /\ LineHandled
    /\ call.line.chars = <<"v", "e", "r", "s", "i", "o", "n", "\n">>
    /\ call.conn.prev_guard # << >>
    /\ ~call.conn.prev_guard[1].value
    /\ Len(ret.sent) = 1
    /\ ret.sent[1].format = "plaintext"

(* C29: a malformed line (neither VERSION nor a JSON array of requests) is *)
(* answered with an error response, and the connection stays open.         *)
C29_MalformedLineAnswered ==
    (LineDone /\ ~VersionLine /\ call.line.kind = "text") =>
        /\ ret.sent # << >>
        /\ conn.status = "open"

\* the ports whose failed bind an error holds
RECURSIVE RecordedAttempts(_)
RecordedAttempts(err) ==
    IF err.kind = "io" THEN {err.port}
    ELSE IF err.kind = "msg" THEN {}
    ELSE RecordedAttempts(err.context) \cup RecordedAttempts(err.source)

(* C30: the listener binds the lowest of the 5 candidate ports that is     *)
(* free; when all 5 are occupied bind_socket fails with an error that      *)
(* holds the failed attempt on each of the 5 ports.                        *)
C30_BindFirstFreePort ==
    (call # None /\ call.op = "bind_socket") =>
        LET candidates == 43055..43059
            free == candidates \ call.occupied
        IN  IF free # {}
            THEN /\ ret.ok
                 /\ ret.port \in free
                 /\ \A port \in free : ret.port <= port
                 /\ listener.status = "listening"
            ELSE /\ ~ret.ok
                 /\ ret.err.context.text = "no port found to listen on"
                 /\ RecordedAttempts(ret.err) = candidates
                 /\ listener.status = "failed"

\* all 5 ports were occupied and bind_socket has failed
C30_Witness ==
    /\ call # None
    /\ call.op = "bind_socket"
    /\ call.occupied = 43055..43059
    /\ ~ret.ok
    /\ Cardinality(RecordedAttempts(ret.err)) = 5

----------------------------------------------------------------------------
(* The UDP interface *)

\* handle_message is through with a datagram
DatagramHandled == udp.call # None /\ udp.ret # None

(* C31: a well-formed request datagram from an address that a reply can be *)
(* sent to has exactly one reply, sent to the address it came from, a      *)
(* malformed datagram has none, and in both cases the listener goes on to  *)
(* serve the next datagram.                                                *)
C31_OneReplyPerRequest ==
    DatagramHandled /\ udp.call.sender # 0 =>
        /\ (udp.call.datagram \in WellFormedDatagrams) =>
                Len(udp.ret.replies) = 1 /\ udp.ret.replies[1].to = udp.call.sender
        /\ (udp.call.datagram \in MalformedDatagrams) => udp.ret.replies = << >>
        /\ udp.status = "listening"

----------------------------------------------------------------------------
(* The commands of a TCP connection *)

\* thread t has the result of a line of requests back from Handle::run
LineReturned(t) ==
    pc[t] = "returned" /\ pending[t] # None /\ pending[t].op = "handle_requests"

(* C32 as stated: a connection makes one Handle::run call per request, so  *)
(* a line of n requests has run n commands when its responses are back.    *)
C32_OneRunPerRequest ==
    \A t \in Clients : LineReturned(t) => execs[t] = Len(pending[t].requests)

(* C32: a connection makes one Handle::run call per line: the command runs *)
(* once and handles all requests of the line in that one execution, the    *)
(* GUARD and the WRITE on the same memory with nothing in between.         *)
C32_OneRunPerLine ==
    /\ [](\A t \in Clients : LineReturned(t) => execs[t] = 1 /\ Len(got[t].val) = 2)
    /\ [][(host = "exec" /\ host' = "result" /\ run_fn.f.op = "handle_requests") =>
            /\ memory' = [memory EXCEPT ![0] = 1]
            /\ run_fn'.result[1].val =
                    <<[type |-> "GUARD_RESPONSE", value |-> (memory[0] = 0), address |-> 0],
                      [type |-> "WRITE_RESPONSE"]>>]_vars

\* a line's responses are back with a guard that failed: memory had been
\* changed before the line's command ran
C32_Witness ==
    \E t \in Clients :
        /\ LineReturned(t)
        /\ execs[t] = 1
        /\ got[t].val = <<[type |-> "GUARD_RESPONSE", value |-> FALSE, address |-> 0],
                          [type |-> "WRITE_RESPONSE"]>>

(* C33 as stated: a sequence of requests a client sends under its LOCK is  *)
(* atomic with respect to the plugin: the requests of a line of the        *)
(* sequence find the plugin's memory as the line before it left it, no     *)
(* run() step and no write of another source having taken effect between.  *)
C33_SequenceAtomic ==
    (/\ BatchHandled
     /\ call.conn.locked # << >>
     /\ \E i \in DOMAIN call.line.requests :
            call.line.requests[i].type \in {"GUARD", "READ", "WRITE"}) =>
        call.before = call.conn.locked[1]

----------------------------------------------------------------------------
(* The JSON/TCP interface: the array of responses and the replies *)

(* C34: in a batch that starts with a GUARD that fails, the GUARD has no   *)
(* response of its own in the array, and every response of a later request *)
(* comes right after a copy of the held failed-guard response.             *)
C34_FailedGuardPrecedesResponses ==
    FirstGuardFails =>
        LET failed == [type |-> "GUARD_RESPONSE", value |-> FALSE,
                       address |-> call.line.requests[1].address]
        IN  /\ Len(call.line.requests) = 1 => ret.responses = << >>
            /\ \A i \in DOMAIN ret.responses :
                    ret.responses[i].type # "GUARD_RESPONSE" =>
                        i > 1 /\ ret.responses[i - 1] = failed

(* C36: every line received is followed by exactly one reply line, sent    *)
(* before the next line is read (the locked mode is never entered), as     *)
(* long as the client is there to take it.                                 *)
C36_OneReplyPerLine ==
    LineDone /\ ~ret.write_failed => Len(ret.sent) = 1

----------------------------------------------------------------------------
(* What a request without a GUARD is due, stated on the table of           *)
(* descriptors and the plugin's memory                                     *)

\* the part of the plugin's memory that length bytes from address on reach:
\* where it starts and how many bytes it has
Reached(map, address, length) ==
    LET hits == Resolving(map, address)
        D == map[FirstOf(hits)]
    IN  IF hits = {} THEN [base |-> 0, len |-> 0]
        ELSE [base |-> D.ptr + D.offset + (address - D.start),
              len |-> Min(D.start + D.len - address, length)]

\* the response a request is due on the runtime st with the memory mem
DueResponse(request, st, mem) ==
    CASE request.type = "WRITE" -> [type |-> "WRITE_RESPONSE"]
      [] request.type = "READ" /\ request.domain = "System Bus" ->
            LET part == Reached(st.memory_map, request.address, request.size)
            IN  [type |-> "READ_RESPONSE",
                 value |-> [k \in 1..part.len |-> mem[part.base + k - 1]]]
      [] request.type = "PING" -> [type |-> "PONG"]
      [] request.type = "SYSTEM" -> [type |-> "SYSTEM_RESPONSE", value |-> "GBA"]
      [] request.type = "HASH" -> [type |-> "HASH_RESPONSE", value |-> st.rom]
      [] request.type = "DISPLAY_MESSAGE" -> [type |-> "ERROR", err |-> "DisplayMessage"]

\* the plugin's memory after a request
DueMemory(request, st, mem) ==
    IF request.type = "WRITE"
    THEN LET part == Reached(st.memory_map, request.address, Len(request.value))
         IN  [p \in DOMAIN mem |->
                IF part.base <= p /\ p < part.base + part.len
                THEN request.value[p - part.base + 1] ELSE mem[p]]
    ELSE mem

RECURSIVE DueMemoryAfter(_, _, _, _)
DueMemoryAfter(requests, n, st, mem) ==
    IF n = 0 THEN mem
    ELSE DueMemory(requests[n], st, DueMemoryAfter(requests, n - 1, st, mem))

(* C35 as stated: for a batch without a GUARD the array has one response   *)
(* per request, the i-th being the response to the i-th request on the     *)
(* memory the requests before it have left, and memory ends as the         *)
(* requests applied in array order leave it.                               *)
C35_ResponsesInOrder ==
    (/\ Observed("handle_requests")
     /\ \A i \in DOMAIN call.requests : call.requests[i].type # "GUARD") =>
        /\ ret # Panic
        /\ Len(ret.responses) = Len(call.requests)
        /\ \A i \in DOMAIN call.requests :
                ret.responses[i] =
                    DueResponse(call.requests[i], state,
                                DueMemoryAfter(call.requests, i - 1, state, call.before))
        /\ memory = DueMemoryAfter(call.requests, Len(call.requests), state, call.before)

(* C37: a READ or WRITE that lies outside its domain, or partly inside it, *)
(* has no ERROR response: the READ has a READ_RESPONSE with the bytes that *)
(* exist, the WRITE a WRITE_RESPONSE, and the requests after it in the     *)
(* batch are handled.                                                      *)
C37_OutOfRangeNotAnError ==
    Observed("handle_requests") =>
        /\ ret # Panic
        /\ Len(ret.responses) = Len(call.requests)
        /\ \A i \in DOMAIN call.requests :
            LET request == call.requests[i]
                length == IF request.type = "READ" THEN request.size
                          ELSE Len(request.value)
                hits == Resolving(state.memory_map, request.address)
                k == IF hits = {} THEN 0
                     ELSE state.memory_map[FirstOf(hits)].start
                            + state.memory_map[FirstOf(hits)].len - request.address
            IN  (request.type \in {"READ", "WRITE"} /\ k < length) =>
                    IF request.type = "READ"
                    THEN /\ ret.responses[i].type = "READ_RESPONSE"
                         /\ Len(ret.responses[i].value) = k
                    ELSE ret.responses[i].type = "WRITE_RESPONSE"

(* C39: VERSION, PING, SYSTEM, HASH, GUARD and READ, and the UDP commands  *)
(* VERSION, GET_STATUS and READ_CORE_MEMORY, leave the plugin's memory and *)
(* RuntimeState as they were; memory changes only through WRITE and        *)
(* WRITE_CORE_MEMORY.                                                      *)
C39_ReadOnlyRequests ==
    /\ state = LoadedState
    /\ (call # None /\ call.op = "line") =>
            (call.after # call.before =>
                /\ call.line.kind = "json"
                /\ \E i \in DOMAIN call.line.requests : call.line.requests[i].type = "WRITE")
    /\ udp.call # None =>
            (udp.call.after # udp.call.before =>
                udp.call.datagram.command = <<"WRITE_CORE_MEMORY">>)

\* a GUARD that fails was handled after a write had changed memory
C39_Witness ==
    /\ BatchHandled
    /\ call.line.requests = <<Guard(0, <<0>>)>>
    /\ call.before[0] = 1
    /\ call.after = call.before
    /\ udp.status = "listening"

(* C38: handing a result back to its submitter never fails: the owning     *)
(* thread never panics in the closure's hand-off, and while the Host lives *)
(* no thread panics in Handle::run waiting for its result.                 *)
C38_HandOffNeverFails ==
    /\ host # "panicked"
    /\ host # "dropped" => \A t \in Clients : pc[t] # "panicked"

\* the descriptor the address resolves to ends inside the range asked for,
\* and the address after its end resolves to a descriptor as well
CrossesInto(map, address, length) ==
    /\ Resolving(map, address) # {}
    /\ LET D == map[FirstOf(Resolving(map, address))]
       IN  /\ address + length > D.start + D.len
           /\ Resolving(map, D.start + D.len) # {}

\* the bytes that remain in the descriptor the address resolves to
RemainingIn(map, address) ==
    LET D == map[FirstOf(Resolving(map, address))]
    IN  D.start + D.len - address

(* C40: a read or write of the system bus whose range starts in a          *)
(* descriptor D and continues past D's end into addresses another          *)
(* descriptor maps returns or writes the bytes that remain in D and no     *)
(* more: the slice, the READ_RESPONSE and the count of written bytes have  *)
(* that length, and a write changes no byte outside D's part of the range. *)
C40_NeverCrossesDescriptor ==
    /\ Observed("get_slice") /\ CrossesInto(state.memory_map, call.addr, call.max_len) =>
            ret # Panic /\ ret.len = RemainingIn(state.memory_map, call.addr)
    /\ Observed("READ") /\ call.domain = "System Bus"
            /\ CrossesInto(state.memory_map, call.address, call.size) =>
            ret # Panic /\ Len(ret.value) = RemainingIn(state.memory_map, call.address)
    /\ Observed("write_memory")
            /\ CrossesInto(state.memory_map, call.address, Len(call.bytes)) =>
            LET D == state.memory_map[FirstOf(Resolving(state.memory_map, call.address))]
                k == RemainingIn(state.memory_map, call.address)
                base == D.ptr + D.offset + (call.address - D.start)
            IN  /\ ret = [len |-> k]
                /\ \A p \in DOMAIN memory :
                        (p < base \/ p >= base + k) => memory[p] = call.before[p]

\* two bytes were written at the last address of a descriptor that the next
\* descriptor follows in the address space and in the plugin's memory: one
\* byte was written, and the byte behind it is as it was
C40_Witness ==
    /\ Observed("write_memory")
    /\ call.bytes = <<1, 1>>
    /\ CrossesInto(state.memory_map, call.address, 2)
    /\ LET D == state.memory_map[FirstOf(Resolving(state.memory_map, call.address))]
           E == state.memory_map[FirstOf(Resolving(state.memory_map, D.start + D.len))]
       IN  /\ E.ptr + E.offset = D.ptr + D.offset + D.len
           /\ E.start = D.start + D.len
           /\ memory[D.ptr + D.offset + D.len - 1] = 1
           /\ memory[E.ptr + E.offset] = 0
    /\ ret = [len |-> 1]

============================================================================
